---- MODULE Spec2Model ----
(***************************************************************************)
(* A model of the credential security core of the RF password manager      *)
(* extension: PIN hashing, verification and the persisted unlock session   *)
(* (src/utils/eventLogger.js), per-record AES-GCM encryption              *)
(* (utils/encryption.js, src/unnamed/part_011) and the vault operations of  *)
(* the popup component RFPasswordManagerPopup (public/detectLogin.js).      *)
(*                                                                         *)
(* Strings are sequences of UTF-16 code units, byte arrays are sequences    *)
(* of 0..255.  AES-GCM, PBKDF2 and SHA-256 are symbolic: a ciphertext names *)
(* the key, the iv and the plaintext that produced it, and decryption       *)
(* succeeds exactly when the tag would verify.  An optional value is the    *)
(* empty sequence (absent, null, a thrown exception) or a one-element       *)
(* sequence.                                                                *)
(***************************************************************************)
EXTENDS Integers, Sequences, FiniteSets, TLC

\* ------------------------------------------------------------------ bounds
\* Longest site / username / password text drawn as an input.
MaxTextLen == 2
\* Most records the persisted list may hold.
MaxCreds == 2
\* Most timers one popup instance may have pending.
MaxTimers == 2
\* Most readings the clock may advance through.
MaxClock == 2
\* Most draws of the random generator.
MaxDraws == 2

\* ------------------------------------------------------- program constants
IV_BYTES == 12
SALT_BYTES == 16

None == <<>>
Some(x) == <<x>>
IsSome(o) == Len(o) = 1
TheVal(o) == o[1]

\* --------------------------------------------------------------- encodings
\* UTF-16 code units used for texts: 'a', '1', e-acute (2 bytes in UTF-8),
\* the euro sign (3 bytes), and the surrogate pair of U+1F600 (4 bytes).
HiSurrogate == 55357
LoSurrogate == 56832
CodeUnits == {97, 49, 233, 8364, HiSurrogate, LoSurrogate}
ReplacementChar == 65533

IsHigh(u) == u >= 55296 /\ u <= 56319
IsLow(u) == u >= 56320 /\ u <= 57343

\* The UTF-8 bytes of one scalar value.
Utf8OfScalar(cp) ==
    IF cp < 128 THEN <<cp>>
    ELSE IF cp < 2048 THEN <<192 + (cp \div 64), 128 + (cp % 64)>>
    ELSE IF cp < 65536
         THEN <<224 + (cp \div 4096), 128 + ((cp \div 64) % 64), 128 + (cp % 64)>>
    ELSE <<240 + (cp \div 262144), 128 + ((cp \div 4096) % 64),
           128 + ((cp \div 64) % 64), 128 + (cp % 64)>>

\* TextEncoder.encode: UTF-16 to UTF-8; a surrogate pair becomes one 4-byte
\* sequence and an unpaired surrogate becomes U+FFFD.
RECURSIVE TextEncode(_)
TextEncode(s) ==
    IF Len(s) = 0 THEN <<>>
    ELSE IF IsHigh(s[1]) /\ Len(s) >= 2 /\ IsLow(s[2])
         THEN Utf8OfScalar(65536 + (s[1] - 55296) * 1024 + (s[2] - 56320))
              \o TextEncode(SubSeq(s, 3, Len(s)))
    ELSE IF IsHigh(s[1]) \/ IsLow(s[1])
         THEN Utf8OfScalar(ReplacementChar) \o TextEncode(Tail(s))
    ELSE Utf8OfScalar(s[1]) \o TextEncode(Tail(s))

\* The UTF-16 code units of one scalar value.
Utf16OfScalar(cp) ==
    IF cp < 65536 THEN <<cp>>
    ELSE <<55296 + ((cp - 65536) \div 1024), 56320 + ((cp - 65536) % 1024)>>

IsCont(b) == b >= 128 /\ b <= 191

\* A decoder that takes every byte for one character (Latin-1), as
\* String.fromCharCode over the bytes would.
TextDecodeBytewise(b) == b

\* TextDecoder.decode: UTF-8 to UTF-16; a byte that starts no well-formed
\* sequence becomes U+FFFD.
RECURSIVE TextDecode(_)
TextDecode(b) ==
    IF Len(b) = 0 THEN <<>>
    ELSE IF b[1] < 128 THEN <<b[1]>> \o TextDecode(Tail(b))
    ELSE IF b[1] >= 194 /\ b[1] <= 223 /\ Len(b) >= 2 /\ IsCont(b[2])
         THEN Utf16OfScalar((b[1] - 192) * 64 + (b[2] - 128))
              \o TextDecode(SubSeq(b, 3, Len(b)))
    ELSE IF b[1] >= 224 /\ b[1] <= 239 /\ Len(b) >= 3 /\ IsCont(b[2]) /\ IsCont(b[3])
         THEN Utf16OfScalar((b[1] - 224) * 4096 + (b[2] - 128) * 64 + (b[3] - 128))
              \o TextDecode(SubSeq(b, 4, Len(b)))
    ELSE IF b[1] >= 240 /\ b[1] <= 244 /\ Len(b) >= 4
            /\ IsCont(b[2]) /\ IsCont(b[3]) /\ IsCont(b[4])
         THEN Utf16OfScalar((b[1] - 240) * 262144 + (b[2] - 128) * 4096
                            + (b[3] - 128) * 64 + (b[4] - 128))
              \o TextDecode(SubSeq(b, 5, Len(b)))
    ELSE <<ReplacementChar>> \o TextDecode(Tail(b))

\* arrayBufferToHex: two hex digits (0..15) per byte, high digit first.
RECURSIVE arrayBufferToHex(_)
arrayBufferToHex(bytes) ==
    IF Len(bytes) = 0 THEN <<>>
    ELSE <<bytes[1] \div 16, bytes[1] % 16>> \o arrayBufferToHex(Tail(bytes))

\* hexToUint8Array: one byte per pair of hex digits.
RECURSIVE hexToUint8Array(_)
hexToUint8Array(hex) ==
    IF Len(hex) < 2 THEN <<>>
    ELSE <<hex[1] * 16 + hex[2]>> \o hexToUint8Array(SubSeq(hex, 3, Len(hex)))

\* A JavaScript string is either an ordinary text (its code units) or the
\* base64 text of a byte buffer.  Base64 is a bijection between buffers and
\* their encodings, so the encoding of a buffer is the buffer under a
\* constructor; atob of a text that is no base64 encoding yields no buffer.
Plain(chars) == [chars |-> chars, buf |-> None]
IsB64(str) == IsSome(str.buf)
arrayBufferToBase64(buffer) == [chars |-> <<>>, buf |-> Some(buffer)]
base64ToArrayBuffer(base64) == base64.buf

\* -------------------------------------------------------------- primitives
\* deriveKeyFromPin: PBKDF2 over the PIN's bytes and the salt; two keys are
\* equal exactly when PIN and salt are.
deriveKeyFromPin(pin, salt) == [pin |-> TextEncode(pin), salt |-> salt]

\* crypto.subtle.encrypt, AES-GCM: ciphertext and tag over (key, iv, data).
\* `flipped` records that a byte of the buffer was altered afterwards.
AesGcmEncrypt(key, iv, data) ==
    [key |-> key, iv |-> iv, data |-> data, flipped |-> FALSE]

\* crypto.subtle.decrypt, AES-GCM: the tag verifies only for the unaltered
\* buffer under the same key and iv; otherwise it throws.
AesGcmDecrypt(key, iv, buffer) ==
    IF buffer.key = key /\ buffer.iv = iv /\ ~buffer.flipped
    THEN Some(buffer.data) ELSE None

encryptText(text, key, iv) ==
    arrayBufferToBase64(AesGcmEncrypt(key, iv, TextEncode(text.chars)))

decryptText(encryptedText, key, iv) ==
    LET encryptedBuffer == base64ToArrayBuffer(encryptedText)
        decryptedBuffer == IF IsSome(encryptedBuffer)
                           THEN AesGcmDecrypt(key, iv, TheVal(encryptedBuffer))
                           ELSE None
    IN IF IsSome(decryptedBuffer) THEN Some(Plain(TextDecode(TheVal(decryptedBuffer))))
       ELSE None

\* generateSalt / generateIV: the n-th draw of crypto.getRandomValues; draws
\* never repeat.
generateSalt(n) == [k \in 1..SALT_BYTES |-> IF k = SALT_BYTES THEN n % 256 ELSE 165]
generateIV(n) == [k \in 1..IV_BYTES |-> IF k = IV_BYTES THEN n % 256 ELSE 90]

\* encryptCredential with the randomness of draw n.
encryptCredential(credential, pin, n) ==
    LET salt == generateSalt(n)
        iv == generateIV(n)
        key == deriveKeyFromPin(pin, salt)
    IN [id |-> credential.id,
        site |-> encryptText(credential.site, key, iv),
        username |-> encryptText(credential.username, key, iv),
        password |-> encryptText(credential.password, key, iv),
        iv |-> arrayBufferToHex(iv),
        salt |-> arrayBufferToHex(salt),
        favicon |-> credential.favicon,
        riskScore |-> credential.riskScore,
        riskFactors |-> credential.riskFactors]

\* A decryptCredential that would refuse records scored 50 or more.
decryptCredentialGated(encryptedCredential, pin) ==
    LET iv == hexToUint8Array(encryptedCredential.iv)
        salt == hexToUint8Array(encryptedCredential.salt)
        key == deriveKeyFromPin(pin, salt)
        site == decryptText(encryptedCredential.site, key, iv)
        username == decryptText(encryptedCredential.username, key, iv)
        password == decryptText(encryptedCredential.password, key, iv)
    IN IF encryptedCredential.riskScore >= 50 THEN None
       ELSE IF ~IsSome(site) \/ ~IsSome(username) \/ ~IsSome(password) THEN None
       ELSE Some([id |-> encryptedCredential.id,
                  site |-> TheVal(site),
                  username |-> TheVal(username),
                  password |-> TheVal(password),
                  iv |-> <<>>,
                  salt |-> <<>>,
                  favicon |-> encryptedCredential.favicon,
                  riskScore |-> encryptedCredential.riskScore,
                  riskFactors |-> encryptedCredential.riskFactors])

\* decryptCredential: the three fields are decrypted in order and the first
\* failure throws (None); the metadata is copied and iv and salt are dropped
\* (empty in the model: a decrypted record has none).
decryptCredential(encryptedCredential, pin) ==
    LET iv == hexToUint8Array(encryptedCredential.iv)
        salt == hexToUint8Array(encryptedCredential.salt)
        key == deriveKeyFromPin(pin, salt)
        site == decryptText(encryptedCredential.site, key, iv)
        username == decryptText(encryptedCredential.username, key, iv)
        password == decryptText(encryptedCredential.password, key, iv)
    IN IF ~IsSome(site) THEN None
       ELSE IF ~IsSome(username) THEN None
       ELSE IF ~IsSome(password) THEN None
       ELSE Some([id |-> encryptedCredential.id,
                  site |-> TheVal(site),
                  username |-> TheVal(username),
                  password |-> TheVal(password),
                  iv |-> <<>>,
                  salt |-> <<>>,
                  favicon |-> encryptedCredential.favicon,
                  riskScore |-> encryptedCredential.riskScore,
                  riskFactors |-> encryptedCredential.riskFactors])

\* ------------------------------------------------------------------ inputs
\* All texts of at most n code units.
RECURSIVE TextsUpTo(_)
TextsUpTo(n) ==
    IF n = 0 THEN {<<>>}
    ELSE LET shorter == TextsUpTo(n - 1)
         IN shorter \cup {Append(t, u) : t \in {x \in shorter : Len(x) = n - 1},
                                         u \in CodeUnits}

Texts == TextsUpTo(MaxTextLen)

\* A text TextEncoder keeps: no surrogate stands unpaired.
RECURSIVE WellFormed(_)
WellFormed(s) ==
    IF Len(s) = 0 THEN TRUE
    ELSE IF IsHigh(s[1])
         THEN Len(s) >= 2 /\ IsLow(s[2]) /\ WellFormed(SubSeq(s, 3, Len(s)))
    ELSE ~IsLow(s[1]) /\ WellFormed(Tail(s))

\* PINs "1234" and "0000" as code units.
Pin1234 == <<49, 50, 51, 52>>
Pin0000 == <<48, 48, 48, 48>>
Pins == {Pin1234, Pin0000}

NullScore == -1
FieldNames == {"site", "username", "password"}

\* A plaintext credential as the popup builds it (newCred) or as a legacy
\* store holds it: no iv, no salt.
PlainCredential(id, site, username, password, favicon, riskScore, riskFactors) ==
    [id |-> id, site |-> Plain(site), username |-> Plain(username),
     password |-> Plain(password), iv |-> <<>>, salt |-> <<>>,
     favicon |-> favicon, riskScore |-> riskScore, riskFactors |-> riskFactors]

CryptoInputs ==
    {PlainCredential(1, s, u, p, m[1], m[2], m[3]) :
        s \in Texts,
        u \in {<<97>>, <<233, 49>>},
        p \in {<<97>>, <<49, 8364>>},
        m \in {<< <<>>, NullScore, {} >>, << <<47, 102>>, 87, {"url_length"} >>}}

\* --------------------------------------------------------- PIN and session
\* Time is counted in ticks of 30 seconds, and every timestamp is kept
\* relative to the present instant: Date.now() reads Now, and the passing of
\* d ticks lowers every stored timestamp and timer delay by d.
Now == 0
TICK_SECONDS == 30
SESSION_DURATION_MINUTES == 30
SessionDuration == (SESSION_DURATION_MINUTES * 60) \div TICK_SECONDS
KEEPALIVE_SECONDS == 60
KeepAlivePeriod == KEEPALIVE_SECONDS \div TICK_SECONDS
GRACE_SECONDS == 30
GraceDelay == GRACE_SECONDS \div TICK_SECONDS

\* hashPin: SHA-256 of the PIN's bytes; two digests are equal exactly when
\* the bytes are.
hashPin(pin) == [sha256 |-> TextEncode(pin)]

verifyPin(pin, storedHash) == Some(hashPin(pin)) = storedHash

\* Bitwise exclusive or of two naturals.
RECURSIVE BitXor(_, _)
BitXor(a, b) ==
    IF a = 0 THEN b
    ELSE IF b = 0 THEN a
    ELSE (((a % 2) + (b % 2)) % 2) + 2 * BitXor(a \div 2, b \div 2)

\* chrome.runtime.id of the model's browser: "abcdefghijklmnop" twice.
ExtensionId == [k \in 1..32 |-> 97 + ((k - 1) % 16)]

\* getSessionKey: key ^= extId.charCodeAt(i) * (i + 1), i from 0.
RECURSIVE SessionKeyUpTo(_)
SessionKeyUpTo(n) ==
    IF n = 0 THEN 0 ELSE BitXor(SessionKeyUpTo(n - 1), ExtensionId[n] * n)

getSessionKey == SessionKeyUpTo(Len(ExtensionId))

\* The byte pin.charCodeAt(i) ^ ((key + i) % 256) for each i (from 0).
XorBytes(units, key) ==
    [k \in 1..Len(units) |-> BitXor(units[k], (key + (k - 1)) % 256)]

encryptSessionPin(pin) == arrayBufferToHex(XorBytes(pin, getSessionKey))

\* A decryptSessionPin that would use the key without the position.
decryptSessionPinNoOffset(encrypted) ==
    [k \in 1..Len(hexToUint8Array(encrypted)) |->
        BitXor(hexToUint8Array(encrypted)[k], getSessionKey % 256)]

decryptSessionPin(encrypted) == XorBytes(hexToUint8Array(encrypted), getSessionKey)

\* createSession's value: expiry SESSION_DURATION_MINUTES from now.
NewSession(pin) == [expiry |-> Now + SessionDuration, ep |-> encryptSessionPin(pin)]

\* The test of getSessionPin and isSessionUnlocked on a stored session.
SessionExpired(session) == Now > session.expiry

\* A getSessionPin that would not look at the expiry.
getSessionPinAnyAge(stored) ==
    IF ~IsSome(stored) THEN None
    ELSE IF Len(TheVal(stored).ep) = 0 THEN None
    ELSE LET pin == decryptSessionPin(TheVal(stored).ep)
         IN IF Len(pin) = 0 THEN None ELSE Some(pin)

\* getSessionPin: what the callback receives (None for null).
getSessionPin(stored) ==
    IF ~IsSome(stored) THEN None
    ELSE IF SessionExpired(TheVal(stored)) THEN None
    ELSE IF Len(TheVal(stored).ep) = 0 THEN None
    ELSE LET pin == decryptSessionPin(TheVal(stored).ep)
         IN IF Len(pin) = 0 THEN None ELSE Some(pin)

\* isSessionUnlocked: what the callback receives.
isSessionUnlocked(stored) ==
    IsSome(stored) /\ ~SessionExpired(TheVal(stored))

\* getSessionPin and isSessionUnlocked remove a session they find expired.
AfterSessionRead(stored) ==
    IF IsSome(stored) /\ SessionExpired(TheVal(stored)) THEN None ELSE stored

\* ------------------------------------------------------------ popup state
Inst == {1, 2}

\* useState / useRef initial values of RFPasswordManagerPopup, and the
\* continuations of its asynchronous handlers (none is pending).
InitUi ==
    [mounted |-> FALSE,
     autofillEnabled |-> TRUE,
     credentials |-> <<>>,
     pinSetupRequired |-> FALSE,
     pinPromptVisible |-> FALSE,
     currentPin |-> None,
     pendingAction |-> FALSE,        \* pendingAction = 'saveCredential'
     windowPending |-> FALSE,        \* window.__pendingAction = 'turnOn'
     pinUnlocked |-> FALSE,
     tamperedCount |-> 0,
     form |-> None,
     sessionClearTimer |-> None,     \* the ref: a timer id, or None
     timers |-> {},                  \* live timers: [id, kind, due]
     pinSetup |-> None,              \* PinSetup's state at its last submit: pin, confirmPin, error
     attempts |-> 0,                 \* PinPrompt: its attempts state
     unlockCalls |-> <<>>,           \* PinPrompt: onUnlock calls whose callback has not run
     lockoutTimeout |-> FALSE,       \* PinPrompt: the 2 s timeout that calls onCancel
     vaultLocked |-> TRUE,           \* useState(true)
     unlockBuf |-> None,             \* handlePinUnlock: immediate load, storage read
     setupPin |-> None,              \* handlePinSetup: savePin done, createSession due
     loadReq |-> FALSE,              \* load effect: scheduled
     loadBuf |-> None,               \* load effect: storage and session read
     unlockLoad |-> None,            \* handlePinUnlock: immediate load due
     unlockTimeout |-> FALSE,        \* handlePinUnlock: the 50 ms timeout due
     extendReq |-> FALSE,            \* extendSession: getSessionPin issued
     extendBuf |-> None,             \* extendSession: PIN read, createSession due
     saveBuf |-> None]               \* performSave: encrypted, storage read or write due

VARIABLES
    rng,        \* number of crypto.getRandomValues draws made so far
    cStage,     \* crypto run: "input", "encrypted" or "decrypted"
    cIn,        \* crypto run: the credential given to encryptCredential
    cPin,       \* crypto run: the PIN given to encryptCredential
    cOrig,      \* crypto run: what encryptCredential returned
    cEnc,       \* crypto run: the stored record, possibly altered since
    cTry,       \* crypto run: the PIN given to decryptCredential
    cOut        \* crypto run: what decryptCredential returned (None: it threw)

cryptoVars == <<cStage, cIn, cPin, cOrig, cEnc, cTry, cOut>>

VARIABLES
    rf_pin_hash,            \* chrome.storage.local: the PIN digest, or None
    rf_pin_session,         \* chrome.storage.local: {expiry, ep}, or None
    rf_creds,               \* chrome.storage.local: the persisted list
    rf_autofill_enabled,    \* chrome.storage.local: the manager switch, or None
    clock,                  \* how many distinct instants have passed (the
                            \* order of the readings of Date.now())
    ui                      \* the state of each popup instance

storeVars == <<rf_pin_hash, rf_pin_session, rf_creds, rf_autofill_enabled>>

\* The event log.  Nothing the popup's handlers do depends on it, so it is
\* driven by the logEvent calls alone and not by the handlers issuing them.
VARIABLES
    rf_event_logs,          \* chrome.storage.local: the log, newest entry first
    logPending,             \* per page: the logEvent calls not yet written, in call order
    logIssued               \* every entry a logEvent call has built, in call order

logVars == <<rf_event_logs, logPending, logIssued>>

\* An empty log and no call under way.
NoLogs ==
    /\ rf_event_logs = <<>>
    /\ logPending = [i \in Inst |-> <<>>]
    /\ logIssued = <<>>

\* The browser's active tab as the background script and the page hold it.
VARIABLES
    tab     \* url, fields: the page has visible login inputs; login:
            \* computeTabLogin(tabId); phishing: phishingState[tabId].status
            \* or None; filled: the values injected into the inputs, or None;
            \* opening: the credential of an open_and_fill whose tab has
            \* not reported its first update yet, or None

\* No page loaded.
NoTab ==
    [url |-> <<>>, fields |-> FALSE, login |-> FALSE, phishing |-> None,
     filled |-> None, opening |-> None]

mainVars == <<storeVars, logVars, tab, clock, ui>>
vars == <<rng, cryptoVars, mainVars>>

\* ------------------------------------------------- the crypto engine alone
CryptoInit ==
    /\ rng = 0
    /\ cStage = "input"
    /\ cIn \in CryptoInputs
    /\ cPin \in Pins
    /\ cOrig = None
    /\ cEnc = None
    /\ cTry = None
    /\ cOut = None
    /\ rf_pin_hash = None
    /\ rf_pin_session = None
    /\ rf_creds = <<>>
    /\ rf_autofill_enabled = None
    /\ clock = 0
    /\ NoLogs
    /\ tab = NoTab
    /\ ui = [i \in Inst |-> InitUi]

\* encryptCredential(cIn, cPin)
CryptoEncrypt ==
    /\ cStage = "input"
    /\ cStage' = "encrypted"
    /\ cOrig' = Some(encryptCredential(cIn, cPin, rng))
    /\ cEnc' = cOrig'
    /\ rng' = rng + 1
    /\ UNCHANGED <<cIn, cPin, cTry, cOut, mainVars>>

\* The stored record is edited in storage (DevTools, another script of the
\* origin): one byte of the ciphertext of field f is changed.
FlipByte(str) ==
    IF IsB64(str)
    THEN [str EXCEPT !.buf = Some([TheVal(str.buf) EXCEPT !.flipped = ~@])]
    ELSE str

CryptoFlip(f) ==
    /\ cStage = "encrypted"
    /\ cEnc = cOrig
    /\ cEnc' = Some([TheVal(cEnc) EXCEPT ![f] = FlipByte(@)])
    /\ UNCHANGED <<rng, cStage, cIn, cPin, cOrig, cTry, cOut, mainVars>>

\* The stored ciphertext of field f is replaced by the stored ciphertext of
\* field g of the same record.
CryptoCopy(f, g) ==
    /\ cStage = "encrypted"
    /\ cEnc = cOrig
    /\ f # g
    /\ cEnc' = Some([TheVal(cEnc) EXCEPT ![f] = TheVal(cEnc)[g]])
    /\ UNCHANGED <<rng, cStage, cIn, cPin, cOrig, cTry, cOut, mainVars>>

\* decryptCredential(cEnc, pin)
CryptoDecrypt(pin) ==
    /\ cStage = "encrypted"
    /\ cStage' = "decrypted"
    /\ cTry' = Some(pin)
    /\ cOut' = decryptCredential(TheVal(cEnc), pin)
    /\ UNCHANGED <<rng, cIn, cPin, cOrig, cEnc, mainVars>>

CryptoNext ==
    \/ CryptoEncrypt
    \/ \E f \in FieldNames : CryptoFlip(f)
    \/ \E f, g \in FieldNames : CryptoCopy(f, g)
    \/ \E pin \in Pins : CryptoDecrypt(pin)

SpecCrypto == CryptoInit /\ [][CryptoNext]_vars

\* --------------------------------------------------------------- claims
\* A ciphertext field of the stored record differs from what
\* encryptCredential returned.
CiphertextModified ==
    \E f \in FieldNames : TheVal(cEnc)[f] # TheVal(cOrig)[f]

\* C2: decryptCredential fails as a whole, returning nothing, whenever the
\* PIN differs from the one used to encrypt or one of the stored site,
\* username or password ciphertexts has been modified.
C2_FailClosed ==
    (cStage = "decrypted" /\ (TheVal(cTry) # cPin \/ CiphertextModified))
        => cOut = None

\* A valid credential record: its texts are well-formed strings.
ValidCredential(r) ==
    /\ WellFormed(r.site.chars)
    /\ WellFormed(r.username.chars)
    /\ WellFormed(r.password.chars)

RoundTripFields == {"id", "site", "username", "password", "favicon",
                    "riskScore", "riskFactors"}

TimerIds(u) == {t.id : t \in u.timers}

FreshTimerId(u) ==
    CHOOSE n \in 1..(MaxTimers + 2) :
        n \notin TimerIds(u) /\ Some(n) # u.sessionClearTimer

TimerRoom(u) == Cardinality(u.timers) < MaxTimers

\* clearTimeout / clearInterval of the ref's timer, when the ref holds one
\* (the two calls cancel either kind of timer), followed by ref = null.
ClearRefTimer(u) ==
    IF IsSome(u.sessionClearTimer)
    THEN [u EXCEPT !.timers = {t \in @ : t.id # TheVal(u.sessionClearTimer)},
                   !.sessionClearTimer = None]
    ELSE u

\* The same without the assignment ref = null (performToggleOff).
CancelRefTimer(u) ==
    IF IsSome(u.sessionClearTimer)
    THEN [u EXCEPT !.timers = {t \in @ : t.id # TheVal(u.sessionClearTimer)}]
    ELSE u

\* setInterval / setTimeout, the id stored in the ref.
StartTimer(u, kind, delay) ==
    LET id == FreshTimerId(u)
    IN [u EXCEPT !.timers = @ \cup {[id |-> id, kind |-> kind, due |-> delay]},
                 !.sessionClearTimer = Some(id)]

\* The keep-alive effect's body for pinUnlocked = TRUE: extendSession at
\* once, then every KEEPALIVE_SECONDS.
StartKeepAlive(u) ==
    StartTimer([u EXCEPT !.extendReq = TRUE], "interval", KeepAlivePeriod)

\* The effects React runs after a handler changed the state from `old` to
\* `new` (`trigger`: loadTrigger was incremented): the keep-alive effect
\* (deps [pinUnlocked]) with the cleanup of its previous run, and the load
\* effect (deps [pinUnlocked, loadTrigger]).
KeepAliveEffect(old, new) ==
    IF old.pinUnlocked = new.pinUnlocked THEN new
    ELSE LET cleaned == IF old.pinUnlocked THEN ClearRefTimer(new) ELSE new
         IN IF ~new.pinUnlocked THEN ClearRefTimer(cleaned)
            ELSE StartKeepAlive(cleaned)

LoadEffect(old, new, trigger) ==
    IF (old.pinUnlocked # new.pinUnlocked \/ trigger) /\ new.pinUnlocked
    THEN [new EXCEPT !.loadReq = TRUE]
    ELSE new

AfterRender(old, new, trigger) ==
    LoadEffect(old, KeepAliveEffect(old, new), trigger)

\* The vault-lock effect (deps [autofillEnabled]): after a render that
\* changed autofillEnabled, setVaultLocked(!(autofillEnabled && pinUnlocked)).
VaultLockEffect(old, new) ==
    IF old.autofillEnabled = new.autofillEnabled THEN new
    ELSE [new EXCEPT !.vaultLocked = ~(new.autofillEnabled /\ new.pinUnlocked)]

\* What a load does with the switch it read: setAutofillEnabled, and
\* setVaultLocked with rf_vault_locked, else with !storedAutofill.  The two
\* keys are written together by performToggleOn and performToggleOff, the
\* second as the negation of the first.
LoadedSwitch(u, storedAutofill) ==
    VaultLockEffect(u, [u EXCEPT !.autofillEnabled = storedAutofill,
                                 !.vaultLocked = ~storedAutofill])

\* No continuation of an asynchronous handler of the instance is pending.
\* The user acts on a popup in this state: clicks are seconds apart, the
\* callbacks of storage and crypto and the 50 ms timeout take milliseconds.
Quiet(u) ==
    /\ u.setupPin = None /\ ~u.loadReq /\ u.loadBuf = None
    /\ u.unlockLoad = None /\ u.unlockBuf = None /\ ~u.unlockTimeout
    /\ ~u.extendReq /\ u.extendBuf = None /\ u.saveBuf = None

\* ------------------------------------------------------- mount and unmount
\* The popup is opened: the component mounts and its initial effect runs
\* isPinSetup and, with a PIN enrolled, isSessionUnlocked.
Open(i) ==
    /\ ~ui[i].mounted
    /\ LET base == [InitUi EXCEPT !.mounted = TRUE]
           unlocked == isSessionUnlocked(rf_pin_session)
       IN IF ~IsSome(rf_pin_hash)
          THEN /\ ui' = [ui EXCEPT ![i] = [base EXCEPT !.pinSetupRequired = TRUE]]
               /\ UNCHANGED rf_pin_session
          ELSE /\ rf_pin_session' = AfterSessionRead(rf_pin_session)
               /\ ui' = [ui EXCEPT ![i] =
                            AfterRender(base, [base EXCEPT !.pinUnlocked = unlocked],
                                        unlocked)]
    /\ UNCHANGED <<rng, cryptoVars, logVars, tab, rf_pin_hash, rf_creds, rf_autofill_enabled, clock>>

\* The popup is closed: the component unmounts, the teardown effect's
\* cleanup calls clearSession, and the instance's timers and pending
\* callbacks go with the page.
Close(i) ==
    /\ ui[i].mounted
    /\ rf_pin_session' = None
    /\ ui' = [ui EXCEPT ![i] = InitUi]
    /\ UNCHANGED <<rng, cryptoVars, logVars, tab, rf_pin_hash, rf_creds, rf_autofill_enabled, clock>>

\* ------------------------------------------------------------- enrollment
\* /\d/ on one code unit.
IsDigit(c) == c \in 48..57

\* A check of the two fields that would not compare them.
PinSetupErrorNoConfirm(pin, confirmPin) ==
    IF Len(pin) < 4 \/ Len(pin) > 6 THEN "PIN must be 4-6 digits"
    ELSE IF ~(\A k \in 1..Len(pin) : IsDigit(pin[k])) THEN "PIN must contain only numbers"
    ELSE ""

\* PinSetup's handleSubmit, the error it sets: pin.length outside 4..6,
\* /^\d+$/ failing, pin !== confirmPin, in this order; "" when it goes on
\* to onPinSet.
PinSetupError(pin, confirmPin) ==
    IF Len(pin) < 4 \/ Len(pin) > 6 THEN "PIN must be 4-6 digits"
    ELSE IF ~(\A k \in 1..Len(pin) : IsDigit(pin[k])) THEN "PIN must contain only numbers"
    ELSE IF pin # confirmPin THEN "PINs do not match"
    ELSE ""

\* The PinSetup form is submitted with the two fields as typed: a rejected
\* submit only sets the error; an accepted one calls onPinSet, which is
\* handlePinSetup, whose savePin stores the digest.
PinSetupSubmit(i, pin, confirmPin) ==
    /\ ui[i].mounted /\ ui[i].pinSetupRequired /\ Quiet(ui[i])
    /\ LET error == PinSetupError(pin, confirmPin)
           fields == Some([pin |-> pin, confirmPin |-> confirmPin, error |-> error])
       IN IF error = ""
          THEN /\ rf_pin_hash' = Some(hashPin(pin))
               /\ ui' = [ui EXCEPT ![i].setupPin = Some(pin), ![i].pinSetup = fields]
          ELSE /\ ui' = [ui EXCEPT ![i].pinSetup = fields]
               /\ UNCHANGED rf_pin_hash
    /\ UNCHANGED <<rng, cryptoVars, logVars, tab, rf_pin_session, rf_creds, rf_autofill_enabled, clock>>

\* PinSetup submits a PIN typed identically in both fields.
SetupSubmit(i, pin) == PinSetupSubmit(i, pin, pin)

\* savePin's callback: the PIN goes to React state, createSession stores
\* the session, and its callback unlocks and forces a load.
SetupSaved(i) ==
    /\ ui[i].mounted /\ IsSome(ui[i].setupPin) /\ TimerRoom(ui[i])
    /\ LET pin == TheVal(ui[i].setupPin)
           new == [ui[i] EXCEPT !.setupPin = None,
                                !.pinSetup = None,
                                !.currentPin = Some(pin),
                                !.pinSetupRequired = FALSE,
                                !.pinUnlocked = TRUE]
       IN /\ rf_pin_session' = Some(NewSession(pin))
          /\ ui' = [ui EXCEPT ![i] = AfterRender(ui[i], new, TRUE)]
    /\ UNCHANGED <<rng, cryptoVars, logVars, tab, rf_pin_hash, rf_creds, rf_autofill_enabled, clock>>

\* ------------------------------------------------------------ decrypt loops
\* cred.iv && cred.salt
HasIvSalt(cred) == Len(cred.iv) > 0 /\ Len(cred.salt) > 0

\* The load effect's loop: a record that decrypts is pushed decrypted, a
\* record that throws is counted and left out, a record without iv and
\* salt is pushed as it is.
RECURSIVE LoadDecrypted(_, _)
LoadDecrypted(list, pin) ==
    IF Len(list) = 0 THEN <<>>
    ELSE LET cred == Head(list)
             rest == LoadDecrypted(Tail(list), pin)
         IN IF HasIvSalt(cred)
            THEN (IF IsSome(decryptCredential(cred, pin))
                  THEN <<TheVal(decryptCredential(cred, pin))>> \o rest
                  ELSE rest)
            ELSE <<cred>> \o rest

\* tamperedCredentials of the same loop.
LoadTampered(list, pin) ==
    Cardinality({k \in 1..Len(list) :
                    HasIvSalt(list[k]) /\ ~IsSome(decryptCredential(list[k], pin))})

\* The loop of handlePinUnlock's immediate load and of performSave: a record
\* that throws is pushed as it is stored.
DisplayDecrypted(list, pin) ==
    [k \in 1..Len(list) |->
        IF HasIvSalt(list[k]) /\ IsSome(decryptCredential(list[k], pin))
        THEN TheVal(decryptCredential(list[k], pin))
        ELSE list[k]]

\* storedAutofill: the stored switch, or the instance's own when absent.
StoredAutofill(u) ==
    IF IsSome(rf_autofill_enabled) THEN TheVal(rf_autofill_enabled)
    ELSE u.autofillEnabled

\* ----------------------------------------------------------------- unlock
\* PinPrompt submits a PIN: handlePinUnlock reads the digest and verifies;
\* on success the PIN goes to React state, createSession stores the session
\* and its callback unlocks, hides the prompt, forces a load, issues the
\* immediate load and arms the 50 ms timeout.  On failure nothing changes.
PinUnlock(i, pin) ==
    /\ ui[i].mounted /\ ui[i].pinPromptVisible /\ ~ui[i].pinSetupRequired
    /\ Quiet(ui[i]) /\ TimerRoom(ui[i])
    /\ IF verifyPin(pin, rf_pin_hash)
       THEN LET new == [ui[i] EXCEPT !.currentPin = Some(pin),
                                     !.pinUnlocked = TRUE,
                                     !.vaultLocked = FALSE,
                                     !.pinPromptVisible = FALSE,
                                     !.unlockLoad = Some(pin),
                                     !.unlockTimeout = TRUE]
            IN /\ rf_pin_session' = Some(NewSession(pin))
               /\ ui' = [ui EXCEPT ![i] = AfterRender(ui[i], new, TRUE)]
       ELSE UNCHANGED <<rf_pin_session, ui>>
    /\ UNCHANGED <<rng, cryptoVars, logVars, tab, rf_pin_hash, rf_creds, rf_autofill_enabled, clock>>

\* PinPrompt unmounts when the popup stops rendering it: its state is gone
\* (the next prompt starts from useState(0)) and the callbacks of its onUnlock
\* calls still run, on a component that is no longer there.
Unmounted(calls) == [k \in 1..Len(calls) |-> [calls[k] EXCEPT !.live = FALSE]]

PromptGone(u) ==
    [u EXCEPT !.pinPromptVisible = FALSE, !.attempts = 0,
              !.unlockCalls = Unmounted(@)]

\* The prompt's Cancel button.
PromptCancel(i) ==
    /\ ui[i].mounted /\ ui[i].pinPromptVisible /\ Quiet(ui[i])
    /\ ui' = [ui EXCEPT ![i] = PromptGone(@)]
    /\ UNCHANGED <<rng, cryptoVars, logVars, tab, storeVars, clock>>

\* handlePinUnlock's immediate load: the stored list is decrypted with the
\* entered PIN and shown; the stored switch is restored unless a turn-ON
\* is pending.
UnlockLoad(i) ==
    /\ ui[i].mounted /\ IsSome(ui[i].unlockLoad)
    /\ LET pin == TheVal(ui[i].unlockLoad)
           u == [ui[i] EXCEPT !.unlockLoad = None,
                              !.credentials = DisplayDecrypted(rf_creds, pin)]
       IN ui' = [ui EXCEPT ![i] =
                    IF ui[i].windowPending THEN u
                    ELSE LoadedSwitch(u, StoredAutofill(ui[i]))]
    /\ UNCHANGED <<rng, cryptoVars, logVars, tab, storeVars, clock>>

\* ----------------------------------------------------------- manager switch
\* performToggleOn: the switch is stored ON and the ref's timer is cancelled.
performToggleOn(u) ==
    VaultLockEffect(u, ClearRefTimer([u EXCEPT !.autofillEnabled = TRUE,
                                               !.vaultLocked = FALSE]))

\* performToggleOff: the switch is stored OFF, the PIN leaves React state,
\* the instance locks, and clearSession is scheduled GRACE_SECONDS ahead with
\* its timer in the ref.
performToggleOff(u) ==
    StartTimer(CancelRefTimer([u EXCEPT !.autofillEnabled = FALSE,
                                        !.vaultLocked = TRUE,
                                        !.currentPin = None,
                                        !.pinUnlocked = FALSE]),
               "timeout", GraceDelay)

\* toggleAutofill, the handler of the power button.
toggleAutofill(i) ==
    /\ ui[i].mounted /\ ~ui[i].pinSetupRequired /\ ~ui[i].pinPromptVisible
    /\ IF ~ui[i].autofillEnabled
       THEN IF IsSome(rf_pin_hash) /\ ~ui[i].pinUnlocked
            THEN /\ ui' = [ui EXCEPT ![i].pinPromptVisible = TRUE,
                                     ![i].windowPending = TRUE]
                 /\ UNCHANGED rf_autofill_enabled
            ELSE /\ ui' = [ui EXCEPT ![i] = performToggleOn(ui[i])]
                 /\ rf_autofill_enabled' = Some(TRUE)
       ELSE /\ TimerRoom(CancelRefTimer(ui[i]))
            /\ ui' = [ui EXCEPT ![i] =
                         AfterRender(ui[i], performToggleOff(ui[i]), FALSE)]
            /\ rf_autofill_enabled' = Some(FALSE)
    /\ UNCHANGED <<rng, cryptoVars, logVars, tab, rf_pin_hash, rf_pin_session, rf_creds, clock>>

\* The power button is clicked with nothing pending.
ToggleAutofill(i) == Quiet(ui[i]) /\ toggleAutofill(i)

\* The power button is clicked while a load of the popup is in flight: its
\* storage read is done and its decryption, a PBKDF2 derivation for every
\* record, is not; the 50 ms timeout has run.
ToggleWhileLoading(i) ==
    /\ IsSome(ui[i].loadBuf) \/ IsSome(ui[i].unlockBuf)
    /\ ~ui[i].unlockTimeout /\ ui[i].unlockLoad = None /\ ~ui[i].loadReq
    /\ toggleAutofill(i)

\* ---------------------------------------------------------------- session
\* extendSession, first half: getSessionPin reads the session (and removes
\* it when expired); the PIN travels to the callback.
ExtendRead(i) ==
    /\ ui[i].mounted /\ ui[i].extendReq /\ ui[i].extendBuf = None
    /\ rf_pin_session' = AfterSessionRead(rf_pin_session)
    /\ ui' = [ui EXCEPT ![i].extendReq = FALSE,
                        ![i].extendBuf = Some(getSessionPin(rf_pin_session))]
    /\ UNCHANGED <<rng, cryptoVars, logVars, tab, rf_pin_hash, rf_creds, rf_autofill_enabled, clock>>

\* extendSession, second half: the callback calls createSession(pin) when
\* it received a PIN.
ExtendWrite(i) ==
    /\ ui[i].mounted /\ IsSome(ui[i].extendBuf)
    /\ LET pin == TheVal(ui[i].extendBuf)
       IN rf_pin_session' = IF IsSome(pin) THEN Some(NewSession(TheVal(pin)))
                            ELSE rf_pin_session
    /\ ui' = [ui EXCEPT ![i].extendBuf = None]
    /\ UNCHANGED <<rng, cryptoVars, logVars, tab, rf_pin_hash, rf_creds, rf_autofill_enabled, clock>>

\* A timer of the instance comes due.  The interval calls extendSession and
\* is due again a period later; the timeout of performToggleOff calls
\* clearSession, whose callback sets the ref to null.
TimerFire(i) ==
    /\ ui[i].mounted
    /\ \E t \in ui[i].timers :
        /\ t.due = 0
        /\ IF t.kind = "interval"
           THEN /\ ui' = [ui EXCEPT ![i].timers = (@ \ {t}) \cup
                                        {[t EXCEPT !.due = KeepAlivePeriod]},
                                    ![i].extendReq = TRUE]
                /\ UNCHANGED rf_pin_session
           ELSE /\ ui' = [ui EXCEPT ![i].timers = @ \ {t},
                                    ![i].sessionClearTimer = None]
                /\ rf_pin_session' = None
    /\ UNCHANGED <<rng, cryptoVars, logVars, tab, rf_pin_hash, rf_creds, rf_autofill_enabled, clock>>

\* ------------------------------------------------------------------- time
AllTimers == UNION {ui[i].timers : i \in Inst}

\* d ticks pass.  Storage, crypto and the 50 ms timeout complete within a
\* tick, and a timer fires when it is due: time passes only when nothing is
\* pending and no timer is due earlier.  Without timers, time passes to the
\* session's expiry or to the tick after it.
Advance(d) ==
    /\ clock < MaxClock
    /\ \A i \in Inst : Quiet(ui[i])
    /\ \A t \in AllTimers : d <= t.due
    /\ \/ AllTimers # {}
       \/ /\ IsSome(rf_pin_session)
          /\ d \in {TheVal(rf_pin_session).expiry, TheVal(rf_pin_session).expiry + 1}
    /\ clock' = clock + 1
    /\ rf_pin_session' =
          IF IsSome(rf_pin_session)
          THEN Some([TheVal(rf_pin_session) EXCEPT
                        !.expiry = IF @ - d < -1 THEN -1 ELSE @ - d])
          ELSE None
    /\ ui' = [i \in Inst |->
                [ui[i] EXCEPT !.timers = {[t EXCEPT !.due = @ - d] : t \in @}]]
    /\ UNCHANGED <<rng, cryptoVars, logVars, tab, rf_pin_hash, rf_creds, rf_autofill_enabled>>

\* The millisecond of the last reading of Date.now() passes: the next
\* reading is a later one.  Instants nobody read are not told apart.
Elapse ==
    /\ clock < MaxClock
    /\ \/ \E k \in 1..Len(rf_creds) : rf_creds[k].id = clock
       \/ \E i \in Inst : IsSome(ui[i].saveBuf) /\ TheVal(ui[i].saveBuf).cred.id = clock
       \/ \E k \in 1..Len(logIssued) : logIssued[k].timestamp = clock
    /\ clock' = clock + 1
    /\ UNCHANGED <<rng, cryptoVars, logVars, tab, storeVars, ui>>

\* ------------------------------------------------------------------- load
\* The load effect, first half: loadStorageData reads the store and
\* getSessionPin reads the session (removing it when expired).
LoadRead(i) ==
    /\ ui[i].mounted /\ ui[i].loadReq /\ ui[i].loadBuf = None
    /\ rf_pin_session' = AfterSessionRead(rf_pin_session)
    /\ ui' = [ui EXCEPT ![i].loadReq = FALSE,
                        ![i].loadBuf = Some([list |-> rf_creds,
                                             pin |-> getSessionPin(rf_pin_session),
                                             autofill |-> rf_autofill_enabled])]
    /\ UNCHANGED <<rng, cryptoVars, logVars, tab, rf_pin_hash, rf_creds, rf_autofill_enabled, clock>>

\* !cred.iv && !cred.salt && cred.password
IsPlaintextCred(cred) ==
    /\ Len(cred.iv) = 0 /\ Len(cred.salt) = 0
    /\ (Len(cred.password.chars) > 0 \/ IsB64(cred.password))

SelectPlaintext(list) == SelectSeq(list, IsPlaintextCred)

\* encryptedMigrated: each plaintext record of the display list encrypted,
\* the k-th with draw n + k - 1.
EncryptedMigrated(plaintextCreds, pin, n) ==
    [k \in 1..Len(plaintextCreds) |->
        encryptCredential(plaintextCreds[k], pin, n + k - 1)]

\* newStorageList: each stored plaintext record replaced by the first
\* migrated record with its id, every other record kept.
NewStorageList(currentStorageList, encryptedMigrated) ==
    [k \in 1..Len(currentStorageList) |->
        LET cred == currentStorageList[k]
            hits == {m \in 1..Len(encryptedMigrated) :
                        encryptedMigrated[m].id = cred.id}
        IN IF IsPlaintextCred(cred) /\ hits # {}
           THEN encryptedMigrated[CHOOSE m \in hits : \A h \in hits : m <= h]
           ELSE cred]

\* The load effect, second half: the decrypt loop, the tamper count, the
\* migration with its write-back of the list that was read, and the state
\* updates.  Without a PIN and with an encrypted record it only prompts.
\* Draws whose ciphertexts end up in no stored record are not counted.
LoadFinish(i) ==
    /\ ui[i].mounted /\ IsSome(ui[i].loadBuf)
    /\ LET buf == TheVal(ui[i].loadBuf)
           u == [ui[i] EXCEPT !.loadBuf = None]
           hasPin == IsSome(buf.pin)
           pin == TheVal(buf.pin)
           hasEncrypted == \E k \in 1..Len(buf.list) : HasIvSalt(buf.list[k])
           list == IF hasPin THEN LoadDecrypted(buf.list, pin) ELSE buf.list
           tampered == IF hasPin THEN LoadTampered(buf.list, pin) ELSE 0
           plaintextCreds == SelectPlaintext(list)
           migrate == hasPin /\ Len(plaintextCreds) > 0
           newStorageList ==
               NewStorageList(buf.list, EncryptedMigrated(plaintextCreds, pin, rng))
           storedAutofill == IF IsSome(buf.autofill) THEN TheVal(buf.autofill)
                             ELSE u.autofillEnabled
       IN IF ~hasPin /\ hasEncrypted
          THEN /\ ui' = [ui EXCEPT ![i] = [u EXCEPT !.pinPromptVisible = TRUE]]
               /\ UNCHANGED <<rf_creds, rng>>
          ELSE /\ ui' = [ui EXCEPT ![i] =
                            LoadedSwitch(
                                [u EXCEPT !.currentPin = IF hasPin THEN buf.pin ELSE @,
                                          !.tamperedCount = IF tampered > 0 THEN tampered ELSE @,
                                          !.credentials = list],
                                storedAutofill)]
               /\ rf_creds' = IF migrate THEN newStorageList ELSE rf_creds
               /\ rng' = IF migrate /\ newStorageList # buf.list
                         THEN rng + Len(plaintextCreds) ELSE rng
    /\ UNCHANGED <<cryptoVars, logVars, tab, rf_pin_hash, rf_pin_session, rf_autofill_enabled, clock>>

\* ------------------------------------------------------------------- save
\* String.prototype.trim: white space is stripped from both ends.
IsSpace(c) == c \in {9, 10, 11, 12, 13, 32, 160}

RECURSIVE TrimStart(_)
TrimStart(str) ==
    IF Len(str) > 0 /\ IsSpace(Head(str)) THEN TrimStart(Tail(str)) ELSE str

RECURSIVE TrimEnd(_)
TrimEnd(str) ==
    IF Len(str) > 0 /\ IsSpace(str[Len(str)])
    THEN TrimEnd(SubSeq(str, 1, Len(str) - 1))
    ELSE str

Trim(str) == TrimEnd(TrimStart(str))

\* /[^A-Za-z0-9]/ on one code unit.
IsSpecial(c) == ~(c \in 48..57 \/ c \in 65..90 \/ c \in 97..122)

\* minLen of onSaveCredential and performSave.
MIN_PASSWORD_LENGTH == 6

\* The form checks without the test for a number.
FormAcceptedNoNumber(form) ==
    LET p == Trim(form.password)
    IN /\ Len(Trim(form.site)) > 0
       /\ Len(p) > 0
       /\ Len(Trim(form.username)) > 0
       /\ Len(p) >= MIN_PASSWORD_LENGTH
       /\ \E k \in 1..Len(p) : IsSpecial(p[k])

\* The form checks of onSaveCredential (repeated for the password in
\* performSave): trimmed site, password and username are not empty, and the
\* trimmed password has minLen code units, a number and a special character.
FormAccepted(form) ==
    LET s == Trim(form.site)
        p == Trim(form.password)
        u == Trim(form.username)
    IN /\ Len(s) > 0
       /\ Len(p) > 0
       /\ Len(u) > 0
       /\ Len(p) >= MIN_PASSWORD_LENGTH
       /\ \E k \in 1..Len(p) : IsDigit(p[k])
       /\ \E k \in 1..Len(p) : IsSpecial(p[k])

\* The phishing check of the form's site as onSaveCredential finds it:
\* "none" for siteRisk null (the handler starts the check and returns),
\* "pending" for siteChecking, "offline" for a siteRisk with serverOffline
\* (server offline or timed out), "done" for any other siteRisk: a scored
\* answer, or the one of the last catch branch, whose score is null.
SiteCheckAccepted(form) == form.check = "done"

\* What the Add form holds when it passes onSaveCredential's checks: a host
\* name, a username, a password of six characters or more with a digit and
\* a special character, and the phishing check's score and features.
Forms ==
    {[site |-> <<97>>, username |-> <<97, 49>>,
      password |-> <<97, 97, 97, 97, 49, 33>>,
      riskScore |-> 12, features |-> {"url_length"}, check |-> "done"],
     [site |-> <<97, 49>>, username |-> <<233>>,
      password |-> <<49, 8364, 97, 97, 97, 97>>,
      riskScore |-> NullScore, features |-> {}, check |-> "done"]}

\* "https://" and "/favicon.ico" as code units.
HttpsPrefix == <<104, 116, 116, 112, 115, 58, 47, 47>>
FaviconPath == <<47, 102, 97, 118, 105, 99, 111, 110, 46, 105, 99, 111>>

\* normalizedSite of performSave for a bare host name: origin and pathname.
NormalizedSite(site) == HttpsPrefix \o site \o <<47>>

\* favicon of performSave: origin and "/favicon.ico".
Favicon(site) == HttpsPrefix \o site \o FaviconPath

\* newCred of performSave; the id is Date.now().
NewCred(form) ==
    PlainCredential(clock, NormalizedSite(Trim(form.site)), form.username,
                    form.password, Favicon(Trim(form.site)), form.riskScore,
                    form.features)

\* A save may start: the model's bounds leave room for one more record.
SaveRoom(u) ==
    /\ u.saveBuf = None
    /\ rng < MaxDraws
    /\ Len(rf_creds) + Cardinality({j \in Inst : IsSome(ui[j].saveBuf)}) < MaxCreds

\* onSaveCredential with its form checks, up to performSave's storage
\* read: the PIN comes from getSessionPin or else from React state; with
\* neither, isSessionUnlocked decides between the prompt and an error.
\* Gives the instance's state, the session and the draw counter afterwards.
onSaveCredential(u, form) ==
    LET sessionPin == getSessionPin(rf_pin_session)
        after == AfterSessionRead(rf_pin_session)
        pin == IF IsSome(sessionPin) THEN sessionPin ELSE u.currentPin
    IN IF ~u.autofillEnabled \/ ~FormAccepted(form) \/ ~SiteCheckAccepted(form)
       THEN [u |-> u, session |-> rf_pin_session, rng |-> rng]
       ELSE IF IsSome(pin)
       THEN [u |-> [u EXCEPT !.currentPin = IF IsSome(sessionPin) /\ @ = None
                                            THEN sessionPin ELSE @,
                             !.saveBuf = Some([cred |-> encryptCredential(
                                                   NewCred(form), TheVal(pin), rng),
                                               pin |-> TheVal(pin),
                                               stored |-> None]),
                             !.form = None],
             session |-> after, rng |-> rng + 1]
       ELSE IF ~isSessionUnlocked(after)
       THEN [u |-> [u EXCEPT !.pendingAction = TRUE, !.pinPromptVisible = TRUE],
             session |-> after, rng |-> rng]
       ELSE [u |-> u, session |-> after, rng |-> rng]

\* The Add form is filled and submitted.
SaveStart(i, form) ==
    /\ ui[i].mounted /\ ~ui[i].pinSetupRequired /\ ~ui[i].pinPromptVisible
    /\ ui[i].autofillEnabled
    /\ Quiet(ui[i])
    /\ SaveRoom(ui[i])
    /\ LET r == onSaveCredential([ui[i] EXCEPT !.form = Some(form)], form)
       IN /\ ui' = [ui EXCEPT ![i] = r.u]
          /\ rf_pin_session' = r.session
          /\ rng' = r.rng
    /\ UNCHANGED <<cryptoVars, logVars, tab, rf_pin_hash, rf_creds, rf_autofill_enabled, clock>>

\* performSave's storage read: loadStorageData(['rf_creds']) is answered with
\* the list persisted at that moment.
SaveRead(i) ==
    /\ ui[i].mounted /\ IsSome(ui[i].saveBuf)
    /\ TheVal(ui[i].saveBuf).stored = None
    /\ ui' = [ui EXCEPT ![i].saveBuf = Some([TheVal(@) EXCEPT !.stored = Some(rf_creds)])]
    /\ UNCHANGED <<rng, cryptoVars, logVars, tab, storeVars, clock>>

\* A save that would put its new record after the list read.
FinalStorageListAppended(encryptedCred, storedEncryptedList) ==
    storedEncryptedList \o <<encryptedCred>>

\* A save that would persist its new record alone.
FinalStorageListNewOnly(encryptedCred, storedEncryptedList) == <<encryptedCred>>

\* finalStorageList of performSave: the new record before the list read.
FinalStorageList(encryptedCred, storedEncryptedList) ==
    <<encryptedCred>> \o storedEncryptedList

\* performSave's storage callback: the new record is put before the list
\* that was read, the result is persisted, and all of it is decrypted for
\* display.
SaveWrite(i) ==
    /\ ui[i].mounted /\ IsSome(ui[i].saveBuf)
    /\ IsSome(TheVal(ui[i].saveBuf).stored)
    /\ LET buf == TheVal(ui[i].saveBuf)
           storedEncryptedList == TheVal(buf.stored)
           finalStorageList == FinalStorageList(buf.cred, storedEncryptedList)
       IN /\ rf_creds' = finalStorageList
          /\ ui' = [ui EXCEPT ![i].saveBuf = None,
                              ![i].credentials =
                                  DisplayDecrypted(finalStorageList, buf.pin)]
    /\ UNCHANGED <<rng, cryptoVars, logVars, tab, rf_pin_hash, rf_pin_session, rf_autofill_enabled, clock>>

\* handlePinUnlock's 50 ms timeout: a pending turn-ON is carried out, and a
\* pending save is submitted again.
UnlockTimeout(i) ==
    /\ ui[i].mounted /\ ui[i].unlockTimeout
    /\ LET u0 == [ui[i] EXCEPT !.unlockTimeout = FALSE]
           u1 == IF u0.windowPending
                 THEN performToggleOn([u0 EXCEPT !.windowPending = FALSE])
                 ELSE u0
           resubmit == u1.pendingAction /\ IsSome(u1.form)
           u2 == [u1 EXCEPT !.pendingAction = FALSE]
           r == IF resubmit THEN onSaveCredential(u2, TheVal(u2.form))
                ELSE [u |-> u2, session |-> rf_pin_session, rng |-> rng]
       IN /\ resubmit => SaveRoom(ui[i])
          /\ ui' = [ui EXCEPT ![i] = r.u]
          /\ rf_pin_session' = r.session
          /\ rng' = r.rng
          /\ rf_autofill_enabled' = IF u0.windowPending THEN Some(TRUE)
                                    ELSE rf_autofill_enabled
    /\ UNCHANGED <<cryptoVars, logVars, tab, rf_pin_hash, rf_creds, clock>>

\* --------------------------------------------------------- delete and purge
WithoutId(list, id) ==
    LET Keep(c) == c.id # id IN SelectSeq(list, Keep)

VisibleIds(u) == {u.credentials[k].id : k \in 1..Len(u.credentials)}

\* onDelete(id) from the vault page.
Delete(i, id) ==
    /\ ui[i].mounted /\ ui[i].pinUnlocked /\ ui[i].autofillEnabled
    /\ ~ui[i].pinPromptVisible /\ Quiet(ui[i])
    /\ id \in VisibleIds(ui[i])
    /\ rf_creds' = WithoutId(rf_creds, id)
    /\ ui' = [ui EXCEPT ![i].credentials = WithoutId(@, id)]
    /\ UNCHANGED <<rng, cryptoVars, logVars, tab, rf_pin_hash, rf_pin_session, rf_autofill_enabled, clock>>

\* validCredentials of onClearCorrupted.
ValidCredentials(storedList, pin) ==
    LET Valid(c) == ~HasIvSalt(c) \/ IsSome(decryptCredential(c, pin))
    IN SelectSeq(storedList, Valid)

\* removedCount of onClearCorrupted, reported in the status message.
RemovedCount(storedList, pin) ==
    Cardinality({k \in 1..Len(storedList) :
                    HasIvSalt(storedList[k])
                    /\ ~IsSome(decryptCredential(storedList[k], pin))})

\* onClearCorrupted, offered while tamperedCount > 0.
Purge(i) ==
    /\ ui[i].mounted /\ ui[i].tamperedCount > 0 /\ ~ui[i].pinPromptVisible
    /\ Quiet(ui[i])
    /\ LET pin == getSessionPin(rf_pin_session)
       IN /\ rf_pin_session' = AfterSessionRead(rf_pin_session)
          /\ IF IsSome(pin)
             THEN /\ rf_creds' = ValidCredentials(rf_creds, TheVal(pin))
                  /\ ui' = [ui EXCEPT ![i] =
                               LoadEffect(@, [@ EXCEPT !.tamperedCount = 0], TRUE)]
             ELSE UNCHANGED <<rf_creds, ui>>
    /\ UNCHANGED <<rng, cryptoVars, logVars, tab, rf_pin_hash, rf_autofill_enabled, clock>>

\* ----------------------------------------------------------- the environment
\* The stored list is edited outside the extension (DevTools, test INT001):
\* one byte of the site ciphertext of record k is changed, or changed back.
\* The editor is a person too: the edit falls between the popups' callbacks.
TamperFlip(k) ==
    /\ k \in 1..Len(rf_creds)
    /\ \A i \in Inst : Quiet(ui[i])
    /\ IsB64(rf_creds[k].site)
    /\ rf_creds' = [rf_creds EXCEPT ![k].site = FlipByte(@)]
    /\ UNCHANGED <<rng, cryptoVars, logVars, tab, rf_pin_hash, rf_pin_session, rf_autofill_enabled,
                   clock, ui>>

\* ------------------------------------------------------ the whole extension
\* A fresh install: nothing stored, no popup open, no crypto run.
Init ==
    /\ rng = 0
    /\ cStage = "idle"
    /\ cIn = None
    /\ cPin = None
    /\ cOrig = None
    /\ cEnc = None
    /\ cTry = None
    /\ cOut = None
    /\ rf_pin_hash = None
    /\ rf_pin_session = None
    /\ rf_creds = <<>>
    /\ rf_autofill_enabled = None
    /\ clock = 0
    /\ NoLogs
    /\ tab = NoTab
    /\ ui = [i \in Inst |-> InitUi]

\* What the code does by itself once a handler has started it: the
\* callbacks of storage and crypto, the effects and the 50 ms timeout.
Callbacks ==
    \/ \E i \in Inst : SetupSaved(i)
    \/ \E i \in Inst : UnlockLoad(i)
    \/ \E i \in Inst : UnlockTimeout(i)
    \/ \E i \in Inst : LoadRead(i)
    \/ \E i \in Inst : LoadFinish(i)
    \/ \E i \in Inst : ExtendRead(i)
    \/ \E i \in Inst : ExtendWrite(i)

\* The passing of time and the timers it makes due.
Time ==
    \/ \E i \in Inst : TimerFire(i)
    \/ \E d \in 1..(SessionDuration + 1) : Advance(d)

\* PIN, session and switch: one popup instance is opened, closed, enrolled,
\* unlocked and switched while a second one is opened, closed and enrolled
\* from its setup form; nothing is saved.
NextSession ==
    \/ Callbacks
    \/ Time
    \/ \E i \in Inst : Open(i)
    \/ \E i \in Inst : Close(i)
    \/ SetupSubmit(1, Pin1234)
    \/ SetupSubmit(2, Pin0000)
    \/ \E pin \in Pins : PinUnlock(1, pin)
    \/ PromptCancel(1)
    \/ ToggleAutofill(1)

SpecSession == Init /\ [][NextSession]_vars

\* Saving over time: one popup instance is opened, closed, enrolled,
\* unlocked and switched, and saves from the Add form.
NextSave ==
    \/ Callbacks
    \/ Time
    \/ \E i \in Inst : SaveRead(i)
    \/ \E i \in Inst : SaveWrite(i)
    \/ Open(1)
    \/ Close(1)
    \/ SetupSubmit(1, Pin1234)
    \/ \E pin \in Pins : PinUnlock(1, pin)
    \/ PromptCancel(1)
    \/ ToggleAutofill(1)
    \/ \E form \in Forms : SaveStart(1, form)

SpecSave == Init /\ [][NextSave]_vars

\* The vault within the session's first seconds: one popup instance is
\* opened, closed, enrolled, unlocked and switched, and saves, deletes and
\* purges, while the stored list may be edited from outside.
NextVault ==
    \/ Callbacks
    \/ \E i \in Inst : SaveRead(i)
    \/ \E i \in Inst : SaveWrite(i)
    \/ Elapse
    \/ Open(1)
    \/ Close(1)
    \/ SetupSubmit(1, Pin1234)
    \/ \E pin \in Pins : PinUnlock(1, pin)
    \/ PromptCancel(1)
    \/ ToggleAutofill(1)
    \/ \E form \in Forms : SaveStart(1, form)
    \/ \E id \in 0..MaxClock : Delete(1, id)
    \/ Purge(1)
    \/ \E k \in 1..MaxCreds : TamperFlip(k)

SpecVault == Init /\ [][NextVault]_vars

\* Two popups saving: both instances are opened, the first one enrolls, and
\* each saves from its Add form within the session's first seconds.
NextTwoSaves ==
    \/ \E i \in Inst : Open(i)
    \/ SetupSubmit(1, Pin1234)
    \/ \E i \in Inst : SetupSaved(i)
    \/ \E i \in Inst : LoadRead(i)
    \/ \E i \in Inst : LoadFinish(i)
    \/ \E i \in Inst : ExtendRead(i)
    \/ \E i \in Inst : ExtendWrite(i)
    \/ \E i \in Inst : \E form \in Forms : SaveStart(i, form)
    \/ \E i \in Inst : SaveRead(i)
    \/ \E i \in Inst : SaveWrite(i)
    \/ Elapse

SpecTwoSaves == Init /\ [][NextTwoSaves]_vars

\* What may be typed into the Add form: the forms that pass, one that passes
\* with white space around its password, and forms that fail one check each.
FormInputs ==
    Forms \cup
    {[site |-> <<97>>, username |-> <<97>>, password |-> pw,
      riskScore |-> 12, features |-> {}, check |-> "done"] :
        pw \in {<<32, 97, 97, 97, 97, 49, 33>>,
                <<>>,
                <<32, 32, 32, 32, 32, 32, 32>>,
                <<97, 97, 97, 49, 33>>,
                <<97, 97, 97, 97, 97, 33>>,
                <<97, 97, 97, 97, 97, 49>>,
                <<32, 97, 49, 33, 97, 32>>,
                <<32, 97, 97, 97, 97, 97, 49, 32>>}} \cup
    {[site |-> st, username |-> un, password |-> <<97, 97, 97, 97, 49, 33>>,
      riskScore |-> 12, features |-> {}, check |-> "done"] :
        st \in {<<>>, <<32>>}, un \in {<<97>>}} \cup
    {[site |-> <<97>>, username |-> un, password |-> <<97, 97, 97, 97, 49, 33>>,
      riskScore |-> 12, features |-> {}, check |-> "done"] :
        un \in {<<>>, <<32>>}} \cup
    {[site |-> <<97>>, username |-> <<97>>, password |-> <<97, 97, 97, 97, 49, 33>>,
      riskScore |-> NullScore, features |-> {}, check |-> ch] :
        ch \in {"none", "pending", "offline"}}

\* The Add form: one popup instance is opened and enrolled and submits the
\* form with whatever was typed.
NextForm ==
    \/ Open(1)
    \/ SetupSubmit(1, Pin1234)
    \/ \E i \in Inst : SetupSaved(i)
    \/ \E i \in Inst : LoadRead(i)
    \/ \E i \in Inst : LoadFinish(i)
    \/ \E i \in Inst : ExtendRead(i)
    \/ \E i \in Inst : ExtendWrite(i)
    \/ \E form \in FormInputs : SaveStart(1, form)
    \/ \E i \in Inst : SaveRead(i)
    \/ \E i \in Inst : SaveWrite(i)
    \/ Elapse

SpecForm == Init /\ [][NextForm]_vars

\* ------------------------------------------------------------ enrollment
\* What the two fields of PinSetup are submitted with: PINs of 3, 4, 6 and
\* 7 digits, one with a letter, empty fields, and fields that differ.
Pin123 == <<49, 50, 51>>
Pin123456 == <<49, 50, 51, 52, 53, 54>>
Pin1234567 == <<49, 50, 51, 52, 53, 54, 55>>
Pin123a == <<49, 50, 51, 97>>

PinFields ==
    {<<p, p>> : p \in {Pin1234, Pin0000, Pin123, Pin123456, Pin1234567, Pin123a, <<>>}}
        \cup {<<Pin1234, Pin0000>>, <<Pin1234, <<>>>>, <<Pin1234, Pin123456>>}

\* Two popups, enrollment with any of these fields, no saves and no time.
NextEnroll ==
    \/ \E i \in Inst : Open(i)
    \/ \E i \in Inst : Close(i)
    \/ \E i \in Inst, f \in PinFields : PinSetupSubmit(i, f[1], f[2])
    \/ \E i \in Inst : SetupSaved(i)
    \/ \E i \in Inst : LoadRead(i)
    \/ \E i \in Inst : LoadFinish(i)
    \/ \E i \in Inst : ExtendRead(i)
    \/ \E i \in Inst : ExtendWrite(i)

SpecEnroll == Init /\ [][NextEnroll]_vars

\* -------------------------------------------------------- late keep-alive
\* setInterval promises no punctuality: after a suspended machine or a
\* throttled page the keep-alive interval of an unlocked popup comes due
\* with the session as old as it may be.  The expiries it may find: passed,
\* reached in this tick, and the one an interval on time finds.
LateExpiries == {0 - 1, 0, SessionDuration - KeepAlivePeriod}

LateSessions(pin) ==
    {None} \cup {Some([expiry |-> e, ep |-> encryptSessionPin(pin)]) : e \in LateExpiries}

\* An enrolled store, popup 1 open and unlocked with its keep-alive
\* interval due, and any of these sessions persisted.
InitExtend ==
    /\ rng = 0
    /\ cStage = "idle"
    /\ cIn = None /\ cPin = None /\ cOrig = None /\ cEnc = None
    /\ cTry = None /\ cOut = None
    /\ rf_creds = <<>>
    /\ rf_autofill_enabled = None
    /\ clock = 0
    /\ NoLogs
    /\ tab = NoTab
    /\ \E pin \in Pins :
          /\ rf_pin_hash = Some(hashPin(pin))
          /\ rf_pin_session \in LateSessions(pin)
          /\ ui = [i \in Inst |->
                     IF i = 1
                     THEN [InitUi EXCEPT
                              !.mounted = TRUE,
                              !.pinUnlocked = TRUE,
                              !.currentPin = Some(pin),
                              !.sessionClearTimer = Some(1),
                              !.timers = {[id |-> 1, kind |-> "interval", due |-> 0]}]
                     ELSE InitUi]

\* The interval fires and extendSession runs, while a second popup is
\* opened and closed and time passes.
NextExtend ==
    \/ \E i \in Inst : TimerFire(i)
    \/ \E i \in Inst : ExtendRead(i)
    \/ \E i \in Inst : ExtendWrite(i)
    \/ \E i \in Inst : LoadRead(i)
    \/ \E i \in Inst : LoadFinish(i)
    \/ \E d \in 1..(SessionDuration + 1) : Advance(d)
    \/ Open(2)
    \/ Close(2)

SpecExtend == InitExtend /\ [][NextExtend]_vars

\* -------------------------------------------------------------- event log
MAX_LOGS == 500

\* How many logEvent calls a run issues.
MaxLogCalls == 3

\* logs.unshift(logEntry), then slice(0, MAX_LOGS) when longer.
LogWithEntry(logEntry, logs) ==
    LET longer == <<logEntry>> \o logs
    IN IF Len(longer) > MAX_LOGS THEN SubSeq(longer, 1, MAX_LOGS) ELSE longer

\* logEvent's entry: the id is the reading of Date.now() and a random
\* string, for which the number of the call stands.
LogEntry(eventType) ==
    [id |-> <<clock, Len(logIssued) + 1>>, timestamp |-> clock, event |-> eventType]

\* The calls a page has under way, in the order it issued them, each with
\* what its storage get returned once that has happened.
LogCall(eventType) == [entry |-> LogEntry(eventType), logs |-> None]

\* logEvent(eventType): the entry is built and the storage get is issued.
logEvent(i, eventType) ==
    /\ Len(logIssued) < MaxLogCalls
    /\ logPending' = [logPending EXCEPT ![i] = Append(@, LogCall(eventType))]
    /\ logIssued' = Append(logIssued, LogEntry(eventType))
    /\ UNCHANGED <<rng, cryptoVars, storeVars, tab, rf_event_logs, clock, ui>>

\* performToggleOn and performToggleOff: two logEvent calls one after the
\* other in one handler, both gets issued before any callback runs.
ToggleLogs(i, on) ==
    /\ Len(logIssued) + 1 < MaxLogCalls
    /\ LET first == LogEntry(IF on THEN "manager_enabled" ELSE "manager_disabled")
           second == [LogEntry(IF on THEN "vault_unlocked" ELSE "vault_locked")
                        EXCEPT !.id = <<clock, Len(logIssued) + 2>>]
       IN /\ logPending' = [logPending EXCEPT ![i] =
                               @ \o <<[entry |-> first, logs |-> None],
                                      [entry |-> second, logs |-> None]>>]
          /\ logIssued' = logIssued \o <<first, second>>
    /\ UNCHANGED <<rng, cryptoVars, storeVars, tab, rf_event_logs, clock, ui>>

\* The storage get of a page's oldest call that has none yet returns: the
\* calls of one page are served in the order it issued them.
LogRead(i) ==
    /\ \E k \in 1..Len(logPending[i]) :
          /\ logPending[i][k].logs = None
          /\ \A j \in 1..(k - 1) : logPending[i][j].logs # None
          /\ logPending' = [logPending EXCEPT ![i][k].logs = Some(rf_event_logs)]
    /\ UNCHANGED <<rng, cryptoVars, storeVars, tab, rf_event_logs, logIssued, clock, ui>>

\* The get's callback of a page's oldest call: unshift, trim and set.
LogWrite(i) ==
    /\ Len(logPending[i]) > 0
    /\ IsSome(Head(logPending[i]).logs)
    /\ rf_event_logs' = LogWithEntry(Head(logPending[i]).entry,
                                     TheVal(Head(logPending[i]).logs))
    /\ logPending' = [logPending EXCEPT ![i] = Tail(@)]
    /\ UNCHANGED <<rng, cryptoVars, storeVars, tab, logIssued, clock, ui>>

\* Entries written before the run, newest first: n of them, each a
\* millisecond older than the one before it.
OldLog(n) ==
    [k \in 1..n |-> [id |-> <<0 - k, 0 - k>>, timestamp |-> 0 - k, event |-> "pin_verified"]]

LogEvents == {"pin_verified", "password_copied"}

\* logEvent calls of two pages, alone and in pairs, and the passing of time.
NextLog ==
    \/ \E i \in Inst, eventType \in LogEvents : logEvent(i, eventType)
    \/ \E i \in Inst, on \in BOOLEAN : ToggleLogs(i, on)
    \/ \E i \in Inst : LogRead(i)
    \/ \E i \in Inst : LogWrite(i)
    \/ Elapse

\* From an empty log.
SpecLog == Init /\ [][NextLog]_vars

\* From a log that is full or one entry short of it.
InitLogFull ==
    /\ rng = 0
    /\ cStage = "idle"
    /\ cIn = None /\ cPin = None /\ cOrig = None /\ cEnc = None
    /\ cTry = None /\ cOut = None
    /\ rf_pin_hash = None
    /\ rf_pin_session = None
    /\ rf_creds = <<>>
    /\ rf_autofill_enabled = None
    /\ rf_event_logs \in {OldLog(MAX_LOGS - 1), OldLog(MAX_LOGS)}
    /\ logPending = [i \in Inst |-> <<>>]
    /\ logIssued = <<>>
    /\ tab = NoTab
    /\ clock = 0
    /\ ui = [i \in Inst |-> InitUi]

SpecLogFull == InitLogFull /\ [][NextLog]_vars

\* ------------------------------------------------------------------- fill
\* new URL(url).origin for an https URL: scheme and host, without the path;
\* None where new URL throws.
RECURSIVE UntilSlash(_)
UntilSlash(str) ==
    IF Len(str) = 0 \/ Head(str) = 47 THEN <<>>
    ELSE <<Head(str)>> \o UntilSlash(Tail(str))

UrlOrigin(url) ==
    IF Len(url) > Len(HttpsPrefix) /\ SubSeq(url, 1, Len(HttpsPrefix)) = HttpsPrefix
       /\ Len(UntilSlash(SubSeq(url, Len(HttpsPrefix) + 1, Len(url)))) > 0
    THEN Some(HttpsPrefix \o UntilSlash(SubSeq(url, Len(HttpsPrefix) + 1, Len(url))))
    ELSE None

\* if (!/^https?:\/\//i.test(site)) site = "https://" + site
WithScheme(site) ==
    IF Len(site) >= Len(HttpsPrefix) /\ SubSeq(site, 1, Len(HttpsPrefix)) = HttpsPrefix
    THEN site ELSE HttpsPrefix \o site

\* checkUrlMatchesCredentials for one record: the origins must be equal;
\* the path test that follows passes for every saved site whose path is
\* "/", which is what performSave stores for a host name.
checkUrlMatch(currentUrl, cred) ==
    /\ IsSome(UrlOrigin(currentUrl))
    /\ UrlOrigin(WithScheme(cred.site.chars)) = UrlOrigin(currentUrl)

\* The background script's autofillEnabled: true by default, then
\* rf_autofill_enabled as storage has it.
BgAutofillEnabled ==
    IF IsSome(rf_autofill_enabled) THEN TheVal(rf_autofill_enabled) ELSE TRUE

\* query-login-state: autofillEnabled && computeTabLogin(tabId)
queryLoginState == BgAutofillEnabled /\ tab.login

\* canFill as the popup's effect sets it for the active tab, and VaultPage's
\* canFillThisCred: the Fill button of the record is enabled.
canFill(u) ==
    /\ u.autofillEnabled
    /\ \/ queryLoginState
       \/ \E k \in 1..Len(u.credentials) : checkUrlMatch(tab.url, u.credentials[k])

canFillThisCred(u, cred) == canFill(u) \/ checkUrlMatch(tab.url, cred)

\* The pages the active tab may show: the site of a saved record, a page
\* below it, and a site no record is for.
TabUrls ==
    {NormalizedSite(<<97>>), NormalizedSite(<<97>>) \o <<108>>, NormalizedSite(<<122>>)}

\* The tab loads a page: tabs.onUpdated 'loading' deletes tabState and
\* phishingState of the tab, then the content script reports whether it
\* sees a login form, which the background ignores while disabled.
TabLoad(url, fields) ==
    /\ tab.opening = None
    /\ tab' = [url |-> url, fields |-> fields,
               login |-> fields /\ BgAutofillEnabled,
               phishing |-> None, filled |-> None, opening |-> None]
    /\ UNCHANGED <<rng, cryptoVars, storeVars, logVars, clock, ui>>

\* checkActiveTabRisk: the server's verdict on the tab's URL becomes
\* homeRisk, and the badge effect sends it to the background as the tab's
\* phishing status.
CheckActiveTabRisk(i, status) ==
    /\ ui[i].mounted /\ ui[i].autofillEnabled
    /\ IsSome(UrlOrigin(tab.url))
    /\ tab' = [tab EXCEPT !.phishing = Some(status)]
    /\ UNCHANGED <<rng, cryptoVars, storeVars, logVars, clock, ui>>

\* The injected function of fill_in_tab: the visible inputs get the
\* record's username and password.
Injected(cred) ==
    IF tab.fields
    THEN [tab EXCEPT !.filled = Some([username |-> cred.username, password |-> cred.password])]
    ELSE tab

\* The background's fill_in_tab handler.
fill_in_tab(cred) == IF BgAutofillEnabled THEN Injected(cred) ELSE tab

\* The Fill button of record k is clicked in the unlocked vault:
\* onFillCredential sends fill_in_tab for the active tab when the tab is a
\* login page or has the record's origin (otherwise it opens the site in
\* another tab).
FillCredential(i, k) ==
    /\ ui[i].mounted /\ ui[i].autofillEnabled /\ ui[i].pinUnlocked /\ Quiet(ui[i])
    /\ k \in 1..Len(ui[i].credentials)
    /\ canFillThisCred(ui[i], ui[i].credentials[k])
    /\ \/ queryLoginState
       \/ /\ IsSome(UrlOrigin(tab.url))
          /\ UrlOrigin(tab.url) = UrlOrigin(WithScheme(ui[i].credentials[k].site.chars))
    /\ tab' = fill_in_tab(ui[i].credentials[k])
    /\ UNCHANGED <<rng, cryptoVars, storeVars, logVars, clock, ui>>

\* The background's open_and_fill handler: nothing while disabled;
\* otherwise tabs.create opens the site in a tab of its own, which becomes
\* the active one, and a tabs.onUpdated listener holds the credential.
open_and_fill(siteUrl, cred) ==
    IF BgAutofillEnabled
    THEN [url |-> siteUrl, fields |-> FALSE, login |-> FALSE, phishing |-> None,
          filled |-> None, opening |-> Some(cred)]
    ELSE tab

\* The Fill button of record k when the active tab is neither a login page
\* nor of the record's origin: onFillCredential sends open_and_fill.
OpenAndFill(i, k) ==
    /\ ui[i].mounted /\ ui[i].autofillEnabled /\ ui[i].pinUnlocked /\ Quiet(ui[i])
    /\ k \in 1..Len(ui[i].credentials)
    /\ canFillThisCred(ui[i], ui[i].credentials[k])
    /\ tab.opening = None
    /\ ~queryLoginState
    /\ ~(/\ IsSome(UrlOrigin(tab.url))
          /\ UrlOrigin(tab.url) = UrlOrigin(WithScheme(ui[i].credentials[k].site.chars)))
    /\ tab' = open_and_fill(WithScheme(ui[i].credentials[k].site.chars),
                            ui[i].credentials[k])
    /\ UNCHANGED <<rng, cryptoVars, storeVars, logVars, clock, ui>>

\* The opened tab reports status 'loading' or 'complete': the listener
\* injects the credential into the page, which has visible inputs or not,
\* and removes itself; the content script reports the page's login form.
OpenedTabUpdated(fields) ==
    /\ IsSome(tab.opening)
    /\ LET cred == TheVal(tab.opening)
       IN tab' = [tab EXCEPT
                     !.fields = fields,
                     !.login = fields /\ BgAutofillEnabled,
                     !.filled = IF fields
                                THEN Some([username |-> cred.username,
                                           password |-> cred.password])
                                ELSE None,
                     !.opening = None]
    /\ UNCHANGED <<rng, cryptoVars, storeVars, logVars, clock, ui>>

\* One popup with saved records, the active tab loading pages, the
\* phishing check, the Fill button and the manager's switch.
NextFill ==
    \/ Open(1)
    \/ SetupSubmit(1, Pin1234)
    \/ SetupSaved(1)
    \/ LoadRead(1)
    \/ LoadFinish(1)
    \/ ExtendRead(1)
    \/ ExtendWrite(1)
    \/ \E form \in Forms : SaveStart(1, form)
    \/ SaveRead(1)
    \/ SaveWrite(1)
    \/ \E url \in TabUrls, fields \in BOOLEAN : TabLoad(url, fields)
    \/ \E status \in {"phishing", "legit"} : CheckActiveTabRisk(1, status)
    \/ \E k \in 1..MaxCreds : FillCredential(1, k)
    \/ \E k \in 1..MaxCreds : OpenAndFill(1, k)
    \/ \E fields \in BOOLEAN : OpenedTabUpdated(fields)
    \/ ToggleAutofill(1)

SpecFill == Init /\ [][NextFill]_vars

\* -------------------------------------------- a store of legacy records
\* The id of a record that has none: undefined === undefined holds, so
\* records without an id compare equal by id.
MissingId == 0 - 1

\* An id given by Date.now() before the installation was upgraded.
OldId == 0 - 2

LegacyIds == {MissingId, OldId}

\* What the plaintext version's Add form stored under rf_creds: a site, and
\* whatever username and password were typed, the password possibly empty.
LegacyContents ==
    {[site |-> <<97>>, username |-> <<97, 49>>, password |-> <<49, 97>>],
     [site |-> <<233>>, username |-> <<>>, password |-> <<8364>>],
     [site |-> <<97, 49>>, username |-> <<49>>, password |-> <<>>]}

LegacyRecords ==
    {PlainCredential(id, NormalizedSite(c.site), c.username, c.password,
                     Favicon(c.site), 0, {}) :
        id \in LegacyIds, c \in LegacyContents}

\* The stores of one to MaxCreds legacy records.
LegacyStores ==
    UNION {[1..n -> LegacyRecords] : n \in 1..MaxCreds}

\* An installation upgraded from the plaintext version: legacy records are
\* stored, no PIN is enrolled, no popup is open.
InitLegacy ==
    /\ rng = 0
    /\ cStage = "idle"
    /\ cIn = None
    /\ cPin = None
    /\ cOrig = None
    /\ cEnc = None
    /\ cTry = None
    /\ cOut = None
    /\ rf_pin_hash = None
    /\ rf_pin_session = None
    /\ rf_creds \in LegacyStores
    /\ rf_autofill_enabled = None
    /\ clock = 0
    /\ NoLogs
    /\ tab = NoTab
    /\ ui = [i \in Inst |-> InitUi]

\* The upgraded installation: one popup instance is opened, closed,
\* enrolled, switched and unlocked, loads and migrates, and deletes.
NextLegacy ==
    \/ Callbacks
    \/ Open(1)
    \/ Close(1)
    \/ SetupSubmit(1, Pin1234)
    \/ PinUnlock(1, Pin1234)
    \/ ToggleAutofill(1)
    \/ \E id \in LegacyIds : Delete(1, id)

SpecLegacy == InitLegacy /\ [][NextLegacy]_vars

\* ------------------------------------------------- claims about the popup
\* C1: every record of the list shown to the UI is a decrypted record: no
\* record still in ciphertext form (with its iv and salt) is ever in the
\* visible list, whichever of the load effect, the immediate load after an
\* unlock and the refresh after a save filled it.
C1_NoCiphertextShown ==
    \A i \in Inst : \A k \in 1..Len(ui[i].credentials) :
        ~HasIvSalt(ui[i].credentials[k])

\* The records of a stored list that decrypt under the PIN, in stored
\* order, decrypted.
DecryptableShown(list, pin) ==
    LET Ok(c) == HasIvSalt(c) /\ IsSome(decryptCredential(c, pin))
        kept == SelectSeq(list, Ok)
    IN [k \in 1..Len(kept) |-> TheVal(decryptCredential(kept[k], pin))]

\* The encrypted records of a stored list that do not decrypt under the PIN.
FailingCount(list, pin) ==
    LET Bad(c) == HasIvSalt(c) /\ ~IsSome(decryptCredential(c, pin))
    IN Len(SelectSeq(list, Bad))

\* A step in which instance i completes a load that had a PIN.
LoadCompletes(i) ==
    /\ IsSome(ui[i].loadBuf) /\ IsSome(TheVal(ui[i].loadBuf).pin)
    /\ ui'[i].mounted /\ ui'[i].loadBuf = None

\* C4: a load with PIN p over a store of m encrypted records that decrypt
\* under p and k that do not leaves exactly those m records, in persisted
\* order, in the visible list and a tamper count of k (0 on an untampered
\* store).
C4_LoadResult ==
    [][\A i \in Inst : LoadCompletes(i) =>
          LET buf == TheVal(ui[i].loadBuf)
          IN /\ ui'[i].credentials = DecryptableShown(buf.list, TheVal(buf.pin))
             /\ ui'[i].tamperedCount = FailingCount(buf.list, TheVal(buf.pin))]_vars

\* The persisted session has reached its expiry: now >= expiry.
AtOrPastExpiry ==
    IsSome(rf_pin_session) /\ TheVal(rf_pin_session).expiry <= Now

\* C5: a read of the session at t = E or later returns absent: an instance
\* opened then (isSessionUnlocked) is not unlocked, and an extendSession or
\* a load reading then (getSessionPin) receives no PIN.
C5_ExpiryBoundary ==
    [][AtOrPastExpiry =>
          \A i \in Inst :
              /\ (~ui[i].mounted /\ ui'[i].mounted) => ~ui'[i].pinUnlocked
              /\ (ui[i].extendReq /\ IsSome(ui'[i].extendBuf))
                     => TheVal(ui'[i].extendBuf) = None
              /\ (ui[i].loadReq /\ IsSome(ui'[i].loadBuf))
                     => TheVal(ui'[i].loadBuf).pin = None]_vars

\* C6: whenever a session is persisted, the digest of its PIN equals the
\* stored pin_hash.
C6_SessionMatchesHash ==
    IsSome(rf_pin_session) =>
        Some(hashPin(decryptSessionPin(TheVal(rf_pin_session).ep))) = rf_pin_hash

\* C7: when getSessionPin returns absent, a save request encrypts nothing:
\* no save gets under way in a step that finds no valid session.
C7_NoSaveWithoutSession ==
    [][\A i \in Inst :
          (ui[i].mounted /\ ui[i].saveBuf = None /\ IsSome(ui'[i].saveBuf))
              => IsSome(getSessionPin(rf_pin_session))]_vars

\* C8: an open instance that considers itself unlocked has its periodic
\* extendSession scheduled, and the persisted session has not reached its
\* expiry.
C8_KeptAlive ==
    \A i \in Inst :
        (ui[i].mounted /\ ui[i].pinUnlocked /\ Quiet(ui[i])) =>
            /\ \E t \in ui[i].timers : t.kind = "interval"
            /\ ~AtOrPastExpiry

\* A step in which an instance completes an unlock or an enrollment.
UnlockOrEnroll ==
    \E i \in Inst :
        \/ ui[i].pinPromptVisible /\ ~ui'[i].pinPromptVisible /\ ui'[i].pinUnlocked
        \/ IsSome(ui[i].setupPin) /\ ui'[i].mounted /\ ui'[i].setupPin = None

\* C9: once no session is persisted, none is persisted again before the
\* next successful unlock or enrollment.
C9_LockedUntilUnlock ==
    [][(rf_pin_session = None /\ rf_pin_session' # None) => UnlockOrEnroll]_vars

\* C10: tearing a UI instance down leaves the persisted session as it is,
\* for the next instance to find.
C10_SurvivesRestart ==
    [][\A i \in Inst :
          (ui[i].mounted /\ ~ui'[i].mounted) => rf_pin_session' = rf_pin_session]_vars

\* The ids of the records of a stored list.
StoredIds(list) == {list[k].id : k \in 1..Len(list)}

\* C11: the storage windows of one instance's vault operations do not
\* overlap, so a load that completes reverts nothing: the step in which a
\* load finishes (with its write-back) neither removes a persisted record
\* nor brings a removed one back.
C11_LoadRevertsNothing ==
    [][\A i \in Inst :
          (IsSome(ui[i].loadBuf) /\ ui'[i].mounted /\ ui'[i].loadBuf = None)
              => StoredIds(rf_creds') = StoredIds(rf_creds)]_vars

\* list has the record c.
InList(c, list) == \E k \in 1..Len(list) : list[k] = c

MigratedFrom(enc, old, pin) ==
    /\ HasIvSalt(enc)
    /\ IsSome(decryptCredential(enc, pin))
    /\ LET dec == TheVal(decryptCredential(enc, pin))
       IN \A f \in FieldNames : dec[f] = old[f]

\* A step in which instance i completes a load that had a PIN and read a
\* legacy record to migrate.
MigratingLoadCompletes(i) ==
    /\ LoadCompletes(i)
    /\ \E k \in 1..Len(TheVal(ui[i].loadBuf).list) :
           IsPlaintextCred(TheVal(ui[i].loadBuf).list[k])

\* C13: a load that migrates legacy records preserves the vault content:
\* afterwards the persisted list has the length and order it had, every
\* record that was encrypted is unchanged, and every record put in place of
\* a legacy record decrypts under the PIN to the site, username and
\* password of the legacy record of that position, for every legacy store,
\* equal and missing ids included.
C13_MigrationPreserves ==
    [][\A i \in Inst : MigratingLoadCompletes(i) =>
          LET buf == TheVal(ui[i].loadBuf)
          IN /\ Len(rf_creds') = Len(buf.list)
             /\ \A k \in 1..Len(buf.list) :
                    \/ rf_creds'[k] = buf.list[k]
                    \/ /\ ~HasIvSalt(buf.list[k])
                       /\ MigratedFrom(rf_creds'[k], buf.list[k], TheVal(buf.pin))]_vars

\* list has a record without iv or salt.
HasLegacy(list) == \E k \in 1..Len(list) : ~HasIvSalt(list[k])

\* C14: a load with a valid PIN that read a store with legacy records
\* leaves no persisted record without iv or salt; a load that reads a store
\* without legacy records (the load right after) leaves the persisted list
\* as it is and reports a tamper count of 0.
C14_MigrationComplete ==
    [][\A i \in Inst : LoadCompletes(i) =>
          LET buf == TheVal(ui[i].loadBuf)
          IN IF HasLegacy(buf.list)
             THEN ~HasLegacy(rf_creds')
             ELSE rf_creds' = rf_creds /\ ui'[i].tamperedCount = 0]_vars

\* A record in its at-rest form: with iv and salt, and site, username and
\* password as base64 ciphertext.
InCiphertextForm(cred) ==
    HasIvSalt(cred) /\ \A f \in FieldNames : IsB64(cred[f])

\* C15: credentials are encrypted at rest: whenever a save, a delete, a
\* purge or a load changes the persisted list, every record of the list it
\* writes has iv and salt and its site, username and password in
\* ciphertext form.
C15_EncryptedAtRest ==
    [][rf_creds' # rf_creds =>
          \A k \in 1..Len(rf_creds') : InCiphertextForm(rf_creds'[k])]_vars

\* C16: every encryption uses a fresh iv and a fresh salt: after any
\* sequence of saves and migrations no two persisted encrypted records
\* have the same iv or the same salt.
C16_FreshIvSalt ==
    \A j, k \in 1..Len(rf_creds) :
        (j # k /\ HasIvSalt(rf_creds[j]) /\ HasIvSalt(rf_creds[k])) =>
            /\ rf_creds[j].iv # rf_creds[k].iv
            /\ rf_creds[j].salt # rf_creds[k].salt

\* The stored ciphertext of a field has been replaced by the stored
\* ciphertext of another field of the same record.
FieldExchanged ==
    \E f, g \in FieldNames :
        /\ f # g
        /\ TheVal(cEnc)[f] # TheVal(cOrig)[f]
        /\ TheVal(cEnc)[f] = TheVal(cOrig)[g]

\* C17: each ciphertext field is accepted only in its own place: when the
\* stored ciphertext of one field has been replaced by that of another
\* field of the same record, decryptCredential fails, whatever the PIN.
C17_FieldBound ==
    (cStage = "decrypted" /\ FieldExchanged) => cOut = None

\* C18: after every completed load the tamper count shown to the UI is the
\* number of persisted encrypted records that failed decryption in that
\* load: 0 when every record decrypted, whatever an earlier load counted.
C18_TamperCount ==
    [][\A i \in Inst : LoadCompletes(i) =>
          ui'[i].tamperedCount =
              FailingCount(TheVal(ui[i].loadBuf).list,
                           TheVal(TheVal(ui[i].loadBuf).pin))]_vars

\* A step in which instance i carries out onClearCorrupted: the tamper
\* count it showed is reset.
PurgeCompletes(i) ==
    ui[i].tamperedCount > 0 /\ ui'[i].mounted /\ ui'[i].tamperedCount = 0

\* The records of a stored list other than the encrypted records that fail
\* decryption under the PIN, in stored order.
NotFailing(list, pin) ==
    LET Ok(c) == ~(HasIvSalt(c) /\ ~IsSome(decryptCredential(c, pin)))
    IN SelectSeq(list, Ok)

\* C19: onClearCorrupted with session PIN p removes from the persisted list
\* exactly the encrypted records that fail decryption under p, keeps every
\* other record unchanged and in order, and reports the number removed;
\* the load that follows, reading the purged list, counts 0 tampered
\* records and shows the records that were visible before the purge.
C19_Purge ==
    [][\A i \in Inst : PurgeCompletes(i) =>
          LET p == TheVal(getSessionPin(rf_pin_session))
          IN /\ IsSome(getSessionPin(rf_pin_session))
             /\ rf_creds' = NotFailing(rf_creds, p)
             /\ RemovedCount(rf_creds, p) = Len(rf_creds) - Len(rf_creds')
             /\ ui'[i].loadReq =>
                    /\ LoadTampered(rf_creds', p) = 0
                    /\ LoadDecrypted(rf_creds', p) = ui[i].credentials]_vars

\* A step in which instance i carries out onDelete(id) for a record it
\* shows: the record leaves the visible list and nothing is left pending.
DeleteCompletes(i, id) ==
    /\ ui[i].mounted /\ ui'[i].mounted
    /\ Quiet(ui[i]) /\ Quiet(ui'[i])
    /\ id \in VisibleIds(ui[i])
    /\ ui'[i].credentials = WithoutId(ui[i].credentials, id)

\* list without its k-th record.
RemoveAt(list, k) == SubSeq(list, 1, k - 1) \o SubSeq(list, k + 1, Len(list))

\* C20: onDelete(id) removes from the persisted list exactly one record,
\* the one whose id is id, and leaves every other persisted record, their
\* order, the PIN record and the session as they are; with no persisted
\* record of that id it changes nothing.
C20_DeleteOne ==
    [][\A i \in Inst : \A id \in StoredIds(ui[i].credentials) :
          DeleteCompletes(i, id) =>
              /\ rf_pin_hash' = rf_pin_hash
              /\ rf_pin_session' = rf_pin_session
              /\ IF id \in StoredIds(rf_creds)
                 THEN \E k \in 1..Len(rf_creds) :
                          rf_creds[k].id = id /\ rf_creds' = RemoveAt(rf_creds, k)
                 ELSE rf_creds' = rf_creds]_vars

\* A step in which instance i completes a save: performSave's storage
\* callback persists the list.
SaveCompletes(i) ==
    IsSome(ui[i].saveBuf) /\ ui'[i].mounted /\ ui'[i].saveBuf = None

\* C21: record ids are unique and monotonic: the record a save persists has
\* an id greater than the id of every other record of the persisted list,
\* and so different from each of them, also when two saves read the clock
\* at the same reading or come from two instances.
C21_UniqueIds ==
    [][\A i \in Inst : SaveCompletes(i) =>
          /\ rf_creds'[1] = TheVal(ui[i].saveBuf).cred
          /\ \A k \in 2..Len(rf_creds') : rf_creds'[k].id < rf_creds'[1].id]_vars

\* The save policy on a record's texts: site, username and password are not
\* empty, and the password has six characters or more, a decimal digit and
\* a character that is neither a letter a-z, A-Z nor a digit.
MeetsSavePolicy(site, username, password) ==
    /\ Len(site) > 0 /\ Len(username) > 0 /\ Len(password) > 0
    /\ Len(password) >= 6
    /\ \E k \in 1..Len(password) : password[k] \in 48..57
    /\ \E k \in 1..Len(password) :
           ~(password[k] \in 48..57 \/ password[k] \in 65..90 \/ password[k] \in 97..122)

\* A step in which instance i submits a form that does not meet the policy.
RejectedSubmit(i) ==
    /\ ui'[i].form # ui[i].form /\ IsSome(ui'[i].form)
    /\ LET form == TheVal(ui'[i].form)
       IN ~MeetsSavePolicy(form.site, form.username, form.password)

C23_SavePrepends ==
    [][\A i \in Inst :
          (SaveCompletes(i) /\ TheVal(ui[i].saveBuf).stored = Some(rf_creds)) =>
              /\ Len(rf_creds') = Len(rf_creds) + 1
              /\ rf_creds'[1] = TheVal(ui[i].saveBuf).cred
              /\ InCiphertextForm(rf_creds'[1])
              /\ Tail(rf_creds') = rf_creds]_vars

\* C23, the case: a second record was saved for a site that already had one,
\* and both are persisted.
C23_Witness ==
    /\ Len(rf_creds) = 2
    /\ \A i \in Inst : ui[i].saveBuf = None
    /\ IsSome(decryptCredential(rf_creds[1], Pin1234))
    /\ IsSome(decryptCredential(rf_creds[2], Pin1234))
    /\ TheVal(decryptCredential(rf_creds[1], Pin1234)).site
           = TheVal(decryptCredential(rf_creds[2], Pin1234)).site
    /\ rf_creds[1].iv # rf_creds[2].iv

\* C24: a PIN digest is persisted only for a PIN of 4 to 6 characters, all
\* decimal digits, entered identically in both fields; a submit rejected
\* for length, a non-digit or a mismatch persists no digest and leads to
\* no session.
ValidEnrollment(pin, confirmPin) ==
    /\ Len(pin) >= 4 /\ Len(pin) <= 6
    /\ \A k \in 1..Len(pin) : pin[k] \in 48..57
    /\ confirmPin = pin

SubmittedFields(i) ==
    ui'[i].pinSetup # ui[i].pinSetup /\ IsSome(ui'[i].pinSetup)

C24_EnrollmentPolicy ==
    [][/\ rf_pin_hash' # rf_pin_hash =>
             \E i \in Inst :
                 /\ SubmittedFields(i)
                 /\ ValidEnrollment(TheVal(ui'[i].pinSetup).pin,
                                    TheVal(ui'[i].pinSetup).confirmPin)
                 /\ rf_pin_hash' = Some(hashPin(TheVal(ui'[i].pinSetup).pin))
       /\ \A i \in Inst :
             (/\ SubmittedFields(i)
              /\ ~ValidEnrollment(TheVal(ui'[i].pinSetup).pin,
                                  TheVal(ui'[i].pinSetup).confirmPin)) =>
                 /\ rf_pin_hash' = rf_pin_hash
                 /\ rf_pin_session' = rf_pin_session
                 /\ ui'[i].setupPin = None
                 /\ ui'[i].pinSetupRequired /\ ~ui'[i].pinUnlocked
       /\ \A i \in Inst :
             IsSome(ui'[i].setupPin) =>
                 ValidEnrollment(TheVal(ui'[i].setupPin), TheVal(ui'[i].setupPin))]_vars

\* C24, the case: a submit with two different 4-digit PINs was rejected
\* and nothing is enrolled.
C24_Witness ==
    \E i \in Inst :
        /\ IsSome(ui[i].pinSetup)
        /\ TheVal(ui[i].pinSetup).pin = Pin1234
        /\ TheVal(ui[i].pinSetup).confirmPin = Pin0000
        /\ TheVal(ui[i].pinSetup).error = "PINs do not match"
        /\ rf_pin_hash = None /\ rf_pin_session = None

\* C25: the PIN record is written once: after rf_pin_hash has been stored,
\* no step of any instance changes or removes it.
C25_PinWrittenOnce ==
    [][IsSome(rf_pin_hash) => rf_pin_hash' = rf_pin_hash]_vars

\* C26: extendSession called while a valid session exists persists a
\* session with the same obfuscated PIN and an expiry 30 minutes from the
\* call, never earlier than the expiry it found; called with no session or
\* with an expired one, it creates no session.
ExtendCalled(i) == ui[i].extendReq /\ ~ui'[i].extendReq /\ ui'[i].mounted

ExtendReturns(i) == IsSome(ui[i].extendBuf) /\ ui'[i].extendBuf = None /\ ui'[i].mounted

ExtendTimers(i) == {t \in ui[i].timers : t.kind = "interval"}

C27_KeepAliveTimers ==
    \A i \in Inst :
        /\ (~ui[i].mounted \/ ~ui[i].pinUnlocked) => ExtendTimers(i) = {}
        /\ Cardinality(ExtendTimers(i)) <= 1

\* C28: the event log is append-only: once n logEvent calls on an empty
\* log have completed, the log holds exactly their n entries, also when a
\* call was issued before the write of the previous one had finished.
LoggedEntries == {rf_event_logs[k] : k \in 1..Len(rf_event_logs)}

C28_AppendOnly ==
    (\A i \in Inst : logPending[i] = <<>>) =>
        /\ Len(rf_event_logs) = Len(logIssued)
        /\ LoggedEntries = {logIssued[k] : k \in 1..Len(logIssued)}

\* C29: the stored log never holds more than 500 entries, it is ordered
\* newest first, and what a write drops from the log is the oldest of it.
NewestFirst(logs) ==
    \A k \in 1..(Len(logs) - 1) : logs[k].timestamp >= logs[k + 1].timestamp

KeptEntries == {rf_event_logs'[m] : m \in 1..Len(rf_event_logs')}

DroppedAreOldest ==
    LET kept == KeptEntries
        droppedAt == {j \in 1..Len(rf_event_logs) : rf_event_logs[j] \notin kept}
        keptAt == {k \in 1..Len(rf_event_logs) : rf_event_logs[k] \in kept}
    IN \A j \in droppedAt : \A k \in keptAt :
           rf_event_logs[j].timestamp <= rf_event_logs[k].timestamp

C29_BoundedNewestFirst ==
    [][rf_event_logs' # rf_event_logs =>
          /\ Len(rf_event_logs') <= MAX_LOGS
          /\ NewestFirst(rf_event_logs')
          /\ DroppedAreOldest]_vars

\* C30: while the active tab's phishing status is 'phishing', the Fill
\* button is enabled for no stored credential and no step injects a
\* credential into the page.
C30_NoFillOnPhishing ==
    [][tab.phishing = Some("phishing") =>
          /\ \A i \in Inst : \A k \in 1..Len(ui[i].credentials) :
                (ui[i].mounted /\ ui[i].autofillEnabled /\ ui[i].pinUnlocked)
                    => ~canFillThisCred(ui[i], ui[i].credentials[k])
          /\ IsSome(tab'.filled) => tab'.filled = tab.filled]_vars

\* C31: a credential is persisted only if the phishing check of its site
\* completed and returned a score; a submit whose check is missing, pending
\* or ended with the server offline, a timeout or any other error is
\* rejected and writes nothing.
CheckReturnedScore(form) == form.check = "done" /\ form.riskScore # 0 - 1

UncheckedSubmit(i) ==
    /\ ui'[i].form # ui[i].form /\ IsSome(ui'[i].form)
    /\ ~CheckReturnedScore(TheVal(ui'[i].form))

C31_SaveNeedsScore ==
    [][/\ \A k \in 1..Len(rf_creds') : rf_creds'[k].riskScore # 0 - 1
       /\ \A i \in Inst :
             (IsSome(ui'[i].saveBuf) => TheVal(ui'[i].saveBuf).cred.riskScore # 0 - 1)
       /\ \A i \in Inst :
             UncheckedSubmit(i) => rf_creds' = rf_creds /\ ui'[i].saveBuf = None]_vars

\* ------------------------------------------------------------- PIN prompt
\* onUnlock calls of one popup whose callback has not run yet.
MaxCalls == 2

\* const newAttempts = attempts + 1, with the attempts of the render whose
\* handleSubmit made the call.
NewAttempts(call) == call.attempts + 1

\* PinPrompt's handleSubmit: with a PIN typed it calls onUnlock(pin, callback);
\* the callback closes over the attempts of this render.  The input and the
\* button are disabled once attempts >= 3.
PromptSubmit(i, pin) ==
    /\ ui[i].mounted /\ ui[i].pinPromptVisible /\ ~ui[i].pinSetupRequired
    /\ ui[i].attempts < 3
    /\ Len(pin) > 0
    /\ Len(ui[i].unlockCalls) < MaxCalls
    /\ ui' = [ui EXCEPT ![i].unlockCalls =
                 Append(@, [pin |-> pin, attempts |-> ui[i].attempts, live |-> TRUE])]
    /\ UNCHANGED <<rng, cryptoVars, logVars, tab, storeVars, clock>>

\* handlePinUnlock of the oldest call and its callback.  A valid PIN unlocks
\* as in PinUnlock and the prompt goes away; an invalid one has the callback
\* set attempts to newAttempts, and at 3 arm the timeout that cancels.
PromptVerified(i) ==
    /\ ui[i].mounted /\ ui[i].unlockCalls # <<>>
    /\ ui[i].unlockLoad = None /\ ~ui[i].unlockTimeout
    /\ TimerRoom(ui[i])
    /\ LET call == Head(ui[i].unlockCalls)
           rest == [ui[i] EXCEPT !.unlockCalls = Tail(@)]
       IN IF verifyPin(call.pin, rf_pin_hash)
          THEN LET new == [PromptGone(rest) EXCEPT !.currentPin = Some(call.pin),
                                                   !.pinUnlocked = TRUE,
                                                   !.vaultLocked = FALSE,
                                                   !.unlockLoad = Some(call.pin),
                                                   !.unlockTimeout = TRUE]
               IN /\ rf_pin_session' = Some(NewSession(call.pin))
                  /\ ui' = [ui EXCEPT ![i] = AfterRender(ui[i], new, TRUE)]
          ELSE /\ UNCHANGED rf_pin_session
               /\ ui' = [ui EXCEPT ![i] =
                            IF call.live
                            THEN [rest EXCEPT !.attempts = NewAttempts(call),
                                              !.lockoutTimeout =
                                                  @ \/ NewAttempts(call) >= 3]
                            ELSE rest]
    /\ UNCHANGED <<rng, cryptoVars, logVars, tab, rf_pin_hash, rf_creds, rf_autofill_enabled, clock>>

\* The 2 s timeout of the third failure: onCancel hides the prompt.
PromptLockout(i) ==
    /\ ui[i].mounted /\ ui[i].lockoutTimeout
    /\ ui' = [ui EXCEPT ![i] = [PromptGone(@) EXCEPT !.lockoutTimeout = FALSE]]
    /\ UNCHANGED <<rng, cryptoVars, logVars, tab, storeVars, clock>>

\* An enrolled store and no popup open.
InitPrompt ==
    /\ rng = 0
    /\ cStage = "idle"
    /\ cIn = None /\ cPin = None /\ cOrig = None /\ cEnc = None
    /\ cTry = None /\ cOut = None
    /\ rf_pin_hash = Some(hashPin(Pin1234))
    /\ rf_pin_session = None
    /\ rf_creds = <<>>
    /\ rf_autofill_enabled = None
    /\ clock = 0
    /\ NoLogs
    /\ tab = NoTab
    /\ ui = [i \in Inst |-> InitUi]

\* One popup is opened, closed and switched, which shows the prompt, while
\* time passes; PINs right and wrong are submitted to it, also before the callback of the previous submission has run.
NextPrompt ==
    \/ Open(1)
    \/ Close(1)
    \/ \E pin \in Pins : PromptSubmit(1, pin)
    \/ PromptVerified(1)
    \/ PromptLockout(1)
    \/ PromptCancel(1)
    \/ ToggleAutofill(1)
    \/ UnlockLoad(1)
    \/ UnlockTimeout(1)
    \/ LoadRead(1)
    \/ LoadFinish(1)
    \/ ExtendRead(1)
    \/ ExtendWrite(1)
    \/ TimerFire(1)
    \/ \E d \in 1..(SessionDuration + 1) : Advance(d)

SpecPrompt == InitPrompt /\ [][NextPrompt]_vars

\* C32: in one PIN prompt every failed verification raises the attempt
\* counter by one, also when the submission was made before the callback of
\* the previous one had run, and with 3 failures counted the prompt takes no
\* further submission.
FailedVerification(i) ==
    /\ ui[i].unlockCalls # <<>>
    /\ Head(ui[i].unlockCalls).live
    /\ ~verifyPin(Head(ui[i].unlockCalls).pin, rf_pin_hash)
    /\ ui[i].mounted /\ ui'[i].mounted
    /\ ui'[i].unlockCalls = Tail(ui[i].unlockCalls)

C32_EveryFailureCounts ==
    [][\A i \in Inst :
          /\ FailedVerification(i) => ui'[i].attempts = ui[i].attempts + 1
          /\ ui[i].attempts >= 3 =>
                Len(ui'[i].unlockCalls) <= Len(ui[i].unlockCalls)]_vars

\* C33: the risk score gates neither authentication nor decryption.  For
\* every store that differs from the persisted one only in the riskScore and
\* riskFactors of its records, and every PIN entered, the load gives the
\* same site, username and password values and the same tamper count, and
\* the unlock shows the same values; the PIN is verified against the digest
\* alone.
RiskAnswers == {<<0 - 1, {}>>, <<12, {"url_length"}>>, <<87, {"url_length", "has_ip"}>>}

OtherRisk(list) ==
    {[k \in 1..Len(list) |->
         [list[k] EXCEPT !.riskScore = c[k][1], !.riskFactors = c[k][2]]] :
        c \in [1..Len(list) -> RiskAnswers]}

Visible(list) ==
    [k \in 1..Len(list) |->
        [site |-> list[k].site, username |-> list[k].username,
         password |-> list[k].password]]

C33_RiskNeverGates ==
    \A pin \in Pins : \A other \in OtherRisk(rf_creds) :
        /\ Visible(LoadDecrypted(other, pin)) = Visible(LoadDecrypted(rf_creds, pin))
        /\ LoadTampered(other, pin) = LoadTampered(rf_creds, pin)
        /\ Visible(DisplayDecrypted(other, pin)) = Visible(DisplayDecrypted(rf_creds, pin))

\* Two scored records are stored, one popup shows them decrypted, and the
\* other PIN finds both of them undecryptable.
C33_Witness ==
    /\ Len(rf_creds) = 2
    /\ rf_creds[1].riskScore # rf_creds[2].riskScore
    /\ \E i \in Inst : /\ ui[i].pinUnlocked /\ Quiet(ui[i])
                        /\ Len(ui[i].credentials) = 2
                        /\ IsSome(ui[i].currentPin)
                        /\ LoadTampered(rf_creds, TheVal(ui[i].currentPin)) = 0
    /\ \E pin \in Pins : LoadTampered(rf_creds, pin) = 2

\* C34: with the manager turned OFF in an open popup and not turned back ON,
\* the persisted session is deleted within 30 seconds: as long as a session
\* is persisted, the popup that locked by performToggleOff holds the
\* clearSession timeout, due within the grace delay.
TurnedOff(u) ==
    /\ u.mounted /\ ~u.autofillEnabled /\ ~u.pinUnlocked
    /\ ~u.pinPromptVisible /\ ~u.windowPending

ClearScheduled(u) ==
    \E t \in u.timers : t.kind = "timeout" /\ t.due <= GraceDelay

C34_SessionDeletedAfterOff ==
    (TurnedOff(ui[1]) /\ IsSome(rf_pin_session)) => ClearScheduled(ui[1])

\* C35: when the manager is turned OFF and back ON within the 30 second
\* grace window, the turn-ON proceeds without the PIN prompt and the session
\* is still persisted.  The session of the popup that was unlocked until it
\* was turned OFF is less than one tick old, so less than 30 seconds passed.
InGraceWindow(u) ==
    /\ TurnedOff(u)
    /\ IsSome(rf_pin_session)
    /\ TheVal(rf_pin_session).expiry = Now + SessionDuration

TurnOnRequested(i) ==
    ui'[i].mounted /\ (ui'[i].autofillEnabled \/ ui'[i].pinPromptVisible)

C35_NoPromptInGraceWindow ==
    [][(InGraceWindow(ui[1]) /\ TurnOnRequested(1)) =>
          /\ ~ui'[1].pinPromptVisible
          /\ ui'[1].autofillEnabled
          /\ IsSome(rf_pin_session')]_vars

\* C36: while autofill is disabled in the background worker no step injects
\* a credential into a tab, also not an open_and_fill accepted before the
\* switch-off, and the login-state query answers false.
C36_NothingInjectedWhileDisabled ==
    [][~BgAutofillEnabled =>
          /\ IsSome(tab'.filled) => tab'.filled = tab.filled
          /\ ~queryLoginState
          /\ \A cred \in {ui[1].credentials[k] : k \in 1..Len(ui[1].credentials)} :
                /\ fill_in_tab(cred) = tab
                /\ open_and_fill(cred.site.chars, cred) = tab]_vars

\* ------------------------------------------- a switch-off during a load
\* handlePinUnlock's immediate load, first half: loadStorageData is answered
\* with the list and the switch persisted at that moment.
UnlockLoadRead(i) ==
    /\ ui[i].mounted /\ IsSome(ui[i].unlockLoad) /\ ui[i].unlockBuf = None
    /\ ui' = [ui EXCEPT ![i].unlockLoad = None,
                        ![i].unlockBuf = Some([pin |-> TheVal(ui[i].unlockLoad),
                                               list |-> rf_creds,
                                               autofill |-> rf_autofill_enabled])]
    /\ UNCHANGED <<rng, cryptoVars, logVars, tab, storeVars, clock>>

\* Second half: the list that was read is shown decrypted, and the switch
\* that was read is restored unless a turn-ON is pending.
UnlockLoadFinish(i) ==
    /\ ui[i].mounted /\ IsSome(ui[i].unlockBuf)
    /\ LET buf == TheVal(ui[i].unlockBuf)
           u == [ui[i] EXCEPT !.unlockBuf = None,
                              !.credentials = DisplayDecrypted(buf.list, buf.pin)]
           storedAutofill == IF IsSome(buf.autofill) THEN TheVal(buf.autofill)
                             ELSE u.autofillEnabled
       IN ui' = [ui EXCEPT ![i] =
                    IF ui[i].windowPending THEN u ELSE LoadedSwitch(u, storedAutofill)]
    /\ UNCHANGED <<rng, cryptoVars, logVars, tab, storeVars, clock>>

\* One popup of an enrolled store: it is opened locked, a save asks for the
\* PIN, the PIN unlocks and starts the two loads, and the power button is
\* clicked at any moment, also between a load's storage read and its end.
NextLateLoad ==
    \/ Open(1)
    \/ Close(1)
    \/ \E form \in Forms : SaveStart(1, form)
    \/ SaveRead(1)
    \/ SaveWrite(1)
    \/ \E pin \in Pins : PinUnlock(1, pin)
    \/ PromptCancel(1)
    \/ UnlockLoadRead(1)
    \/ UnlockLoadFinish(1)
    \/ UnlockTimeout(1)
    \/ LoadRead(1)
    \/ LoadFinish(1)
    \/ ExtendRead(1)
    \/ ExtendWrite(1)
    \/ ToggleAutofill(1)
    \/ ToggleWhileLoading(1)

SpecLateLoad == InitPrompt /\ [][NextLateLoad]_vars

\* C37: with a PIN enrolled, a popup that is not PIN-unlocked shows the
\* vault locked, in every reachable state, also when a load that started
\* before the manager was turned OFF completes after it.
C37_LockedWhenNotUnlocked ==
    \A i \in Inst :
        (ui[i].mounted /\ IsSome(rf_pin_hash) /\ ~ui[i].pinUnlocked)
            => ui[i].vaultLocked

\* C38: a load writes the persisted credentials list only when it migrates
\* at least one legacy plaintext record: when every record it read and every
\* persisted record has iv and salt, the step that ends the load leaves the
\* persisted list as it is.
AllEncrypted(list) == \A k \in 1..Len(list) : HasIvSalt(list[k])

LoadEnds(i) ==
    /\ ui[i].mounted /\ ui'[i].mounted
    /\ IsSome(ui[i].loadBuf) /\ ui'[i].loadBuf = None

C38_LoadWritesOnlyMigration ==
    [][\A i \in Inst :
          (/\ LoadEnds(i)
           /\ AllEncrypted(TheVal(ui[i].loadBuf).list)
           /\ AllEncrypted(rf_creds))
             => rf_creds' = rf_creds]_vars

\* ------------------------------------------- the session obfuscation alone
\* PINs the enrollment policy allows, 4 to 6 decimal digits: every digit at
\* every position, in runs of a first digit and a step.
PolicyPins ==
    {[k \in 1..n |-> 48 + ((d + (k - 1) * st) % 10)] :
        n \in 4..6, d \in 0..9, st \in 0..9}

\* A PIN is given; cPin holds it, cEnc and cOrig what two calls of
\* encryptSessionPin return, cOut what decryptSessionPin returns.
InitObfuscate ==
    /\ rng = 0
    /\ cStage = "pin"
    /\ cPin \in PolicyPins
    /\ cIn = None /\ cOrig = None /\ cEnc = None /\ cTry = None /\ cOut = None
    /\ rf_pin_hash = None
    /\ rf_pin_session = None
    /\ rf_creds = <<>>
    /\ rf_autofill_enabled = None
    /\ clock = 0
    /\ NoLogs
    /\ tab = NoTab
    /\ ui = [i \in Inst |-> InitUi]

\* encryptSessionPin(cPin)
SessionEncrypt ==
    /\ cStage = "pin"
    /\ cStage' = "obfuscated"
    /\ cEnc' = Some(encryptSessionPin(cPin))
    /\ UNCHANGED <<rng, cIn, cPin, cOrig, cTry, cOut, mainVars>>

\* encryptSessionPin(cPin), called again.
SessionEncryptAgain ==
    /\ cStage = "obfuscated"
    /\ cStage' = "repeated"
    /\ cOrig' = Some(encryptSessionPin(cPin))
    /\ UNCHANGED <<rng, cIn, cPin, cEnc, cTry, cOut, mainVars>>

\* decryptSessionPin(cEnc)
SessionDecrypt ==
    /\ cStage \in {"obfuscated", "repeated"}
    /\ cStage' = "recovered"
    /\ cOut' = Some(decryptSessionPin(TheVal(cEnc)))
    /\ UNCHANGED <<rng, cIn, cPin, cOrig, cEnc, cTry, mainVars>>

NextObfuscate ==
    \/ SessionEncrypt
    \/ SessionEncryptAgain
    \/ SessionDecrypt

SpecObfuscate == InitObfuscate /\ [][NextObfuscate]_vars

====
